---- MODULE Spec2Model ----
(***************************************************************************)
(* Model of the datafact-service handlers (package handler, api/v1).       *)
(*                                                                         *)
(*   - DataFactFactoryHandler (latest revision, datafact-factory.go        *)
(*     lines 759-954): request checks, fan-out of one goroutine per        *)
(*     persona behind a semaphore of 5, mutex-guarded aggregates,          *)
(*     wg.Wait join, JSON response.                                        *)
(*   - callGemini (lines 985-1038): one HTTP attempt against the           *)
(*     generative-language endpoint.                                       *)
(*   - scrapeGoogleForm / ScrapperHandler (form-scrapper.go).              *)
(*                                                                         *)
(* Strings are sequences of tokens; a token is a character or a word that  *)
(* the code treats as a unit.                                              *)
(***************************************************************************)
EXTENDS Integers, Sequences, FiniteSets, TLC

\* ------------------------------------------------------------------------
\* Bounds of the model
\* ------------------------------------------------------------------------
MaxTasks == 3
MaxFlaky == 2
MaxScript == 5
MaxHtml == 4
MaxQuestions == 2

\* ------------------------------------------------------------------------
\* String helpers (package strings)
\* ------------------------------------------------------------------------
SP == " "

RECURSIVE TrimLeft(_)
TrimLeft(s) ==
    IF s # <<>> /\ Head(s) = SP THEN TrimLeft(Tail(s)) ELSE s

RECURSIVE TrimRight(_)
TrimRight(s) ==
    IF s # <<>> /\ s[Len(s)] = SP THEN TrimRight(SubSeq(s, 1, Len(s) - 1)) ELSE s

\* strings.TrimSpace
TrimSpace(s) == TrimRight(TrimLeft(s))

\* strings.HasPrefix
HasPrefix(s, p) == Len(s) >= Len(p) /\ SubSeq(s, 1, Len(p)) = p

\* strings.HasSuffix
HasSuffix(s, p) == Len(s) >= Len(p) /\ SubSeq(s, Len(s) - Len(p) + 1, Len(s)) = p

\* strings.TrimPrefix
TrimPrefix(s, p) == IF HasPrefix(s, p) THEN SubSeq(s, Len(p) + 1, Len(s)) ELSE s

\* strings.TrimSuffix
TrimSuffix(s, p) == IF HasSuffix(s, p) THEN SubSeq(s, 1, Len(s) - Len(p)) ELSE s

\* strings.ToLower, token by token
LowerTok(c) ==
    CASE c = "Nama" -> "nama"
      [] c = "Usia" -> "usia"
      [] c = "Email" -> "email"
      [] c = "Email Address" -> "email address"
      [] c = "TRUE" -> "true"
      [] c = "False" -> "false"
      [] OTHER -> c

ToLower(s) == [i \in 1..Len(s) |-> LowerTok(s[i])]

RECURSIVE SeqSum(_)
SeqSum(s) == IF s = <<>> THEN 0 ELSE Head(s) + SeqSum(Tail(s))

Range(s) == {s[i] : i \in 1..Len(s)}

\* ------------------------------------------------------------------------
\* Generative-language client: callGemini
\* ------------------------------------------------------------------------
\* What the upstream answers to one HTTP attempt: a transport failure, or a
\* status with a body that is either undecodable or a list of candidates,
\* each candidate being the list of the texts of its parts.
Reply(transport, status, json, candidates) ==
    [transport |-> transport, status |-> status, json |-> json,
     candidates |-> candidates]

ReplyNetErr == Reply(FALSE, 0, FALSE, <<>>)
Reply503 == Reply(TRUE, 503, FALSE, <<>>)
Reply429 == Reply(TRUE, 429, FALSE, <<>>)
Reply400 == Reply(TRUE, 400, FALSE, <<>>)
ReplyBadJSON == Reply(TRUE, 200, FALSE, <<>>)
ReplyEmpty == Reply(TRUE, 200, TRUE, <<>>)
ReplyNoParts == Reply(TRUE, 200, TRUE, << <<>> >>)
ReplyText(t) == Reply(TRUE, 200, TRUE, << <<t>> >>)
Reply404 == Reply(TRUE, 404, FALSE, <<>>)
Reply403 == Reply(TRUE, 403, FALSE, <<>>)
\* a first part with an empty text before a part with a text
ReplyEmptyFirstPart(t) == Reply(TRUE, 200, TRUE, << << <<>>, t >> >>)
\* a first candidate without parts before a candidate with a text
ReplyEmptyFirstCandidate(t) == Reply(TRUE, 200, TRUE, << <<>>, <<t>> >>)
\* a first candidate whose only text is empty before a candidate with a text
ReplyEmptyFirstText(t) == Reply(TRUE, 200, TRUE, << << <<>> >>, <<t>> >>)
ReplyTwoTexts(t, u) == Reply(TRUE, 200, TRUE, << <<t, u>> >>)

\* GeminiPayload and the URL built by callGemini: the key and the model go
\* into the URL, the user prompt into contents[0], the system prompt into
\* system_instruction only when it is not empty.
GeminiRequest(model, apiKey, systemPrompt, userPrompt) ==
    [sent |-> TRUE, model |-> model, key |-> apiKey,
     contents |-> userPrompt,
     system_instruction |-> IF systemPrompt # <<>> THEN <<systemPrompt>> ELSE <<>>]

NoRequest ==
    [sent |-> FALSE, model |-> <<>>, key |-> <<>>, contents |-> <<>>,
     system_instruction |-> <<>>]

\* A retrying client, not the code's: attempt k of at most 5 reads script[k]
\* and goes on to the next attempt on a transport failure, 429, 5xx or an
\* empty 200.
RECURSIVE retryGemini(_, _)
retryGemini(script, k) ==
    LET r == script[k]
        retryable == \/ ~r.transport
                     \/ r.status = 429
                     \/ r.status >= 500
                     \/ (r.status = 200 /\ r.json
                          /\ ~(Len(r.candidates) > 0 /\ Len(r.candidates[1]) > 0))
        err == IF ~r.transport THEN "transport"
               ELSE IF r.status # 200 THEN "status"
               ELSE IF ~r.json THEN "decode"
               ELSE IF Len(r.candidates) > 0 /\ Len(r.candidates[1]) > 0 THEN "nil"
               ELSE "nocontent"
    IN  IF retryable /\ k < 5 /\ k < Len(script)
        THEN retryGemini(script, k + 1)
        ELSE [err |-> err, status |-> r.status,
              text |-> IF err = "nil" THEN r.candidates[1][1] ELSE <<>>,
              attempts |-> k]

callGeminiRetrying(script) == retryGemini(script, 1)

\* a client that goes on to further attempts only after an empty 200
callGeminiRetryingEmpty(script) ==
    LET r == script[1]
    IN  IF r.transport /\ r.status = 200 /\ r.json
           /\ ~(Len(r.candidates) > 0 /\ Len(r.candidates[1]) > 0)
        THEN retryGemini(script, 1)
        ELSE retryGemini(<<r>>, 1)

\* a client that decodes the body whatever the status is
callGeminiStatusUnchecked(script) ==
    LET r == script[1]
    IN  IF ~r.transport
        THEN [err |-> "transport", status |-> 0, text |-> <<>>, attempts |-> 1]
        ELSE IF ~r.json
        THEN [err |-> "decode", status |-> r.status, text |-> <<>>, attempts |-> 1]
        ELSE IF Len(r.candidates) > 0 /\ Len(r.candidates[1]) > 0
        THEN [err |-> "nil", status |-> r.status, text |-> r.candidates[1][1], attempts |-> 1]
        ELSE [err |-> "nocontent", status |-> r.status, text |-> <<>>, attempts |-> 1]

\* callGemini against an upstream that would answer script[k] to the k-th
\* attempt: one fastClient.Do, then the status check, the decode and the
\* first part of the first candidate.  attempts counts the calls of Do.
callGemini(script) ==
    LET r == script[1]
    IN  IF ~r.transport
        THEN [err |-> "transport", status |-> 0, text |-> <<>>, attempts |-> 1]
        ELSE IF r.status # 200
        THEN [err |-> "status", status |-> r.status, text |-> <<>>, attempts |-> 1]
        ELSE IF ~r.json
        THEN [err |-> "decode", status |-> 200, text |-> <<>>, attempts |-> 1]
        ELSE IF Len(r.candidates) > 0 /\ Len(r.candidates[1]) > 0
        THEN [err |-> "nil", status |-> 200, text |-> r.candidates[1][1], attempts |-> 1]
        ELSE [err |-> "nocontent", status |-> 200, text |-> <<>>, attempts |-> 1]

\* cleanMarkdownJSON; the token FENCE is the three-backquote fence
FENCE == "fence"

cleanMarkdownJSON(raw) ==
    LET a == TrimSpace(raw)
        b == TrimPrefix(a, <<FENCE, "json">>)
        c == TrimPrefix(b, <<FENCE>>)
        d == TrimSuffix(c, <<FENCE>>)
    IN  TrimSpace(d)

\* json.Unmarshal of a text into map[string]interface{}: the decoder skips
\* surrounding white space; the text decodes when it is one JSON object (or
\* null, which leaves the map nil).  An object is one token, ObjKeys gives
\* its keys; the value stored under a key is identified by the key, but for
\* the key "usia" of the object {"usia": ""}, whose value is the empty string.
ObjKeys(tok) ==
    CASE tok = "{}" -> {}
      [] tok = "null" -> {}
      [] tok = "{Nama}" -> {<<"Nama">>}
      [] tok = "{foo}" -> {<<"foo">>}
      [] tok = "{ nama ,Nama}" -> {<<SP, "nama", SP>>, <<"Nama">>}
      [] tok = "{Usia,foo}" -> {<<"Usia">>, <<"foo">>}
      [] tok = "{usia:}" -> {<<"usia">>}
      [] OTHER -> {}

IsObjectTok(tok) ==
    tok \in {"{}", "null", "{Nama}", "{foo}", "{ nama ,Nama}", "{Usia,foo}", "{usia:}"}

\* jsonVal of the mapping loop (line 893): the value stored under key k
jsonVal(k) == IF k = <<"usia">> THEN <<>> ELSE k

Unmarshal(text) ==
    LET t == TrimSpace(text)
    IN  IF Len(t) = 1 /\ IsObjectTok(t[1])
        THEN [ok |-> TRUE, dataMap |-> ObjKeys(t[1])]
        ELSE [ok |-> FALSE, dataMap |-> {}]

\* ------------------------------------------------------------------------
\* Authorization (utils.go)
\* ------------------------------------------------------------------------
BearerPrefix == <<"Bearer", SP>>

\* mustAuthorize: "nil" or the error
mustAuthorize(authHeader, expected) ==
    IF expected = <<>> THEN "server misconfigured: missing DATAFACT_API_KEY"
    ELSE IF authHeader = <<>> THEN "missing Authorization header"
    ELSE IF ~HasPrefix(authHeader, BearerPrefix) THEN "invalid Authorization format"
    ELSE IF TrimSpace(TrimPrefix(authHeader, BearerPrefix)) # expected THEN "invalid API key"
    ELSE "nil"

\* ------------------------------------------------------------------------
\* scrapeGoogleForm (form-scrapper.go)
\* ------------------------------------------------------------------------
\* A decoded JSON value (interface{}): a number, a string, an array or null.
\* A number is held as twice its value, so that halves can be told from
\* integers.
JNum(twice) == [t |-> "num", n |-> twice, s |-> "", a |-> <<>>]
JInt(k) == JNum(2 * k)
JStr(str) == [t |-> "str", n |-> 0, s |-> str, a |-> <<>>]
JArr(elems) == [t |-> "arr", n |-> 0, s |-> "", a |-> elems]
JNull == [t |-> "null", n |-> 0, s |-> "", a |-> <<>>]

\* int(f) and int64(f) of a float64: truncation toward zero
TruncInt(v) == IF v.n >= 0 THEN v.n \div 2 ELSE -((-v.n) \div 2)

\* The fetched page as a sequence of tokens:
\*   VAR   "var FB_PUBLIC_LOAD_DATA_ ="
\*   J     a JSON array literal "[...]", the page's form data
\*   JBAD  a bracketed text "[...]" that is not JSON
\*   ";"   a semicolon
\*   END   "</script>"
\*   FBZX  name="fbzx" value="tokhtml"
\*   X     any other text
HtmlTokens == {"VAR", "J", "JBAD", ";", "END", "FBZX", "X"}

MinOf(S) == CHOOSE x \in S : \A y \in S : x <= y
MaxOf(S) == CHOOSE x \in S : \A y \in S : x >= y

\* var\s+FB_PUBLIC_LOAD_DATA_\s*=\s*([\s\S]*?);\s*</script> : from the
\* leftmost VAR, the shortest text up to a ';' that "</script>" follows
primaryMatch(content) ==
    LET starts == {p \in 1..Len(content) :
                      /\ content[p] = "VAR"
                      /\ \E q \in (p + 1)..(Len(content) - 1) :
                            content[q] = ";" /\ content[q + 1] = "END"}
    IN  IF starts = {} THEN <<>>
        ELSE LET p == MinOf(starts)
                 q == MinOf({k \in (p + 1)..(Len(content) - 1) :
                                content[k] = ";" /\ content[k + 1] = "END"})
             IN  <<SubSeq(content, p, q + 1), SubSeq(content, p + 1, q - 1)>>

\* var\s+FB_PUBLIC_LOAD_DATA_\s*=\s*(\[[\s\S]*\]); : from the leftmost VAR
\* that a '[' follows, the longest text up to a ']' that ';' follows
fallbackMatch(content) ==
    LET bracketed(k) == content[k] \in {"J", "JBAD"}
        starts == {p \in 1..(Len(content) - 2) :
                      /\ content[p] = "VAR"
                      /\ bracketed(p + 1)
                      /\ \E q \in (p + 1)..(Len(content) - 1) :
                            bracketed(q) /\ content[q + 1] = ";"}
    IN  IF starts = {} THEN <<>>
        ELSE LET p == MinOf(starts)
                 q == MaxOf({k \in (p + 1)..(Len(content) - 1) :
                                bracketed(k) /\ content[k + 1] = ";"})
             IN  <<SubSeq(content, p, q + 1), SubSeq(content, p + 1, q)>>

\* lines 47-53: the submatches found, <<>> when neither pattern matches
findFormData(content) ==
    IF Len(primaryMatch(content)) < 2 THEN fallbackMatch(content)
    ELSE primaryMatch(content)

\* json.Unmarshal of the captured text into []interface{} (lines 60-63):
\* it decodes when the text is the one array literal of the page
unmarshalArray(jsonStr, data) ==
    IF jsonStr = <<"J">> THEN [ok |-> TRUE, rawData |-> data.a]
    ELSE [ok |-> FALSE, rawData |-> <<>>]

\* strconv.Itoa
Digit(d) == CASE d = 0 -> "0" [] d = 1 -> "1" [] d = 2 -> "2" [] d = 3 -> "3"
              [] d = 4 -> "4" [] d = 5 -> "5" [] d = 6 -> "6" [] d = 7 -> "7"
              [] d = 8 -> "8" [] d = 9 -> "9"

RECURSIVE Itoa(_)
Itoa(i) ==
    IF i < 0 THEN <<"-">> \o Itoa(-i)
    ELSE IF i < 10 THEN <<Digit(i)>>
    ELSE Itoa(i \div 10) \o <<Digit(i % 10)>>

\* strings.Join
RECURSIVE Join(_, _)
Join(parts, sep) ==
    IF parts = <<>> THEN <<>>
    ELSE IF Len(parts) = 1 THEN parts[1]
    ELSE parts[1] \o sep \o Join(Tail(parts), sep)

\* lines 146-158: the option labels of a question
RECURSIVE optionLabels(_)
optionLabels(optsRaw) ==
    IF optsRaw = <<>> THEN <<>>
    ELSE LET o == Head(optsRaw)
         IN  (IF o.t = "arr" /\ Len(o.a) > 0 /\ o.a[1].t = "str"
              THEN <<o.a[1].s>> ELSE <<>>)
             \o optionLabels(Tail(optsRaw))

\* an assignment that keeps what the key was mapped to before as well
MapPutKeepingAll(m, k, v) == m \cup {<<k, v>>}

\* an assignment that leaves a key already present alone
MapPutFirstWins(m, k, v) == IF \E e \in m : e[1] = k THEN m ELSE m \cup {<<k, v>>}

\* entryMappings[qText] = entryID on a map held as a set of <<text, id>>
MapPut(m, k, v) == {e \in m : e[1] # k} \cup {<<k, v>>}

\* the loop of lines 97-103
EmptyWalk == [questions |-> <<>>, entryIDs |-> <<>>, entryMappings |-> {}, pageCount |-> 0]

\* one iteration of the loop of lines 105-170 that takes a type-8 entry
\* with input details for a question
walkItemNoPageBreak(acc, item) ==
    LET qArray == item.a
    IN  IF item.t # "arr" \/ Len(qArray) < 5 THEN acc
        ELSE LET inputDetails == qArray[5]
             IN  IF inputDetails.t # "arr" \/ Len(inputDetails.a) = 0 THEN acc
                 ELSE LET detailInner == inputDetails.a[1]
                      IN  IF detailInner.t # "arr" \/ Len(detailInner.a) = 0 THEN acc
                          ELSE IF detailInner.a[1].t # "num" THEN acc
                          ELSE LET entryID == TruncInt(detailInner.a[1])
                                   qText == IF qArray[2].t = "str" THEN qArray[2].s ELSE ""
                               IN  [acc EXCEPT
                                      !.questions = Append(@, [ID |-> entryID, Text |-> qText,
                                                               Options |-> <<>>]),
                                      !.entryIDs = Append(@, entryID),
                                      !.entryMappings = IF qText # "" THEN MapPut(@, qText, entryID)
                                                        ELSE @]

\* one iteration of a loop that keeps each ID once in entryIDs
walkItemDistinctIDs(acc, item) ==
    LET qArray == item.a
    IN  IF item.t # "arr" \/ Len(qArray) < 4 THEN acc
        ELSE LET itemType == IF qArray[4].t = "num" THEN TruncInt(qArray[4]) ELSE 0
             IN  IF itemType = 8 THEN [acc EXCEPT !.pageCount = @ + 1]
                 ELSE IF Len(qArray) < 5 THEN acc
                 ELSE LET inputDetails == qArray[5]
                      IN  IF inputDetails.t # "arr" \/ Len(inputDetails.a) = 0 THEN acc
                          ELSE LET detailInner == inputDetails.a[1]
                               IN  IF detailInner.t # "arr" \/ Len(detailInner.a) = 0 THEN acc
                                   ELSE IF detailInner.a[1].t # "num" THEN acc
                                   ELSE LET entryID == TruncInt(detailInner.a[1])
                                            qText == IF qArray[2].t = "str" THEN qArray[2].s ELSE ""
                                            options ==
                                                IF Len(detailInner.a) > 1 /\ detailInner.a[2].t = "arr"
                                                THEN optionLabels(detailInner.a[2].a) ELSE <<>>
                                        IN  [acc EXCEPT
                                               !.questions = Append(@, [ID |-> entryID, Text |-> qText,
                                                                        Options |-> options]),
                                               !.entryIDs = IF entryID \in Range(@) THEN @
                                                             ELSE Append(@, entryID),
                                               !.entryMappings =
                                                   IF qText # "" THEN MapPut(@, qText, entryID) ELSE @]

\* one iteration of the loop of lines 105-170
walkItem(acc, item) ==
    LET qArray == item.a
    IN  IF item.t # "arr" \/ Len(qArray) < 4 THEN acc
        ELSE LET itemType == IF qArray[4].t = "num" THEN TruncInt(qArray[4]) ELSE 0
             IN  IF itemType = 8 THEN [acc EXCEPT !.pageCount = @ + 1]
                 ELSE IF Len(qArray) < 5 THEN acc
                 ELSE LET inputDetails == qArray[5]
                      IN  IF inputDetails.t # "arr" \/ Len(inputDetails.a) = 0 THEN acc
                          ELSE LET detailInner == inputDetails.a[1]
                               IN  IF detailInner.t # "arr" \/ Len(detailInner.a) = 0 THEN acc
                                   ELSE IF detailInner.a[1].t # "num" THEN acc
                                   ELSE LET entryID == TruncInt(detailInner.a[1])
                                            qText == IF qArray[2].t = "str" THEN qArray[2].s ELSE ""
                                            options ==
                                                IF Len(detailInner.a) > 1 /\ detailInner.a[2].t = "arr"
                                                THEN optionLabels(detailInner.a[2].a) ELSE <<>>
                                        IN  [acc EXCEPT
                                               !.questions = Append(@, [ID |-> entryID, Text |-> qText,
                                                                        Options |-> options]),
                                               !.entryIDs = Append(@, entryID),
                                               !.entryMappings =
                                                   IF qText # "" THEN MapPut(@, qText, entryID) ELSE @]

RECURSIVE walkQuestions(_, _)
walkQuestions(acc, rawQuestions) ==
    IF rawQuestions = <<>> THEN acc
    ELSE walkQuestions(walkItem(acc, Head(rawQuestions)), Tail(rawQuestions))

\* lines 172-177: "0,1,...,pageCount"
pageHistory(pageCount) == Join([i \in 1..(pageCount + 1) |-> Itoa(i - 1)], <<",">>)

\* the nil *ScrapeResponse
NilScrape ==
    [nil |-> TRUE, Description |-> "", Questions |-> <<>>,
     Saves |-> [FormID |-> "", Fbzx |-> <<>>, PageHistory |-> <<>>, EntryIDs |-> <<>>,
                EntryMappings |-> {}]]

\* a return that hands back an empty schema next to the error
ScrapeErrorPartial(msg) == [err |-> msg, data |-> [NilScrape EXCEPT !.nil = FALSE]]

\* return nil, fmt.Errorf(...)
ScrapeError(msg) == [err |-> msg, data |-> NilScrape]

\* strconv.FormatFloat(f, 'f', -1, 64)
FormatFloat(v) ==
    LET abs == IF v.n < 0 THEN -v.n ELSE v.n
    IN  (IF v.n < 0 THEN <<"-">> ELSE <<>>) \o Itoa(abs \div 2)
        \o (IF abs % 2 = 1 THEN <<".", "5">> ELSE <<>>)

\* a search that looks at index 14 first and at the HTML only without it
findFbzxIndexFirst(content, rawData) ==
    IF Len(rawData) > 14 /\ rawData[15].t = "str"
    THEN (IF rawData[15].s = "" THEN <<>> ELSE <<rawData[15].s>>)
    ELSE IF Len(rawData) > 14 /\ rawData[15].t = "num" THEN FormatFloat(rawData[15])
    ELSE IF \E k \in 1..Len(content) : content[k] = "FBZX" THEN <<"tokhtml">>
    ELSE <<>>

\* lines 65-80: the session token, as the text it is made of
findFbzx(content, rawData) ==
    IF \E k \in 1..Len(content) : content[k] = "FBZX" THEN <<"tokhtml">>
    ELSE IF Len(rawData) > 14
    THEN IF rawData[15].t = "str"
         THEN (IF rawData[15].s = "" THEN <<>> ELSE <<rawData[15].s>>)
         ELSE IF rawData[15].t = "num" THEN FormatFloat(rawData[15])
         ELSE <<>>
    ELSE <<>>

\* a scrape that gives up on the first entry of the question list that is
\* no array of four elements or more
scrapeGoogleFormStrict(content, data) ==
    LET match == findFormData(content)
    IN  IF Len(match) < 2
        THEN ScrapeError("gagal menemukan data form (FB_PUBLIC_LOAD_DATA_)")
        ELSE LET u == unmarshalArray(match[2], data)
                 rawData == u.rawData
             IN  IF ~u.ok THEN ScrapeError("gagal parsing JSON form structure")
                 ELSE IF Len(rawData) < 2 THEN ScrapeError("struktur JSON invalid")
                 ELSE IF rawData[2].t # "arr" \/ Len(rawData[2].a) < 2
                 THEN ScrapeError("gagal akses level 1")
                 ELSE IF rawData[2].a[2].t # "arr"
                 THEN ScrapeError("gagal akses list pertanyaan")
                 ELSE IF \E k \in 1..Len(rawData[2].a[2].a) :
                            \/ rawData[2].a[2].a[k].t # "arr"
                            \/ Len(rawData[2].a[2].a[k].a) < 4
                 THEN ScrapeError("pertanyaan invalid")
                 ELSE LET lvl1 == rawData[2].a
                          w == walkQuestions(EmptyWalk, lvl1[2].a)
                      IN  [err |-> "nil",
                           data |-> [nil |-> FALSE,
                                     Description |-> IF lvl1[1].t = "str" THEN lvl1[1].s ELSE "",
                                     Questions |-> w.questions,
                                     Saves |-> [FormID |-> "scraped_now",
                                                Fbzx |-> findFbzx(content, rawData),
                                                PageHistory |-> pageHistory(w.pageCount),
                                                EntryIDs |-> w.entryIDs,
                                                EntryMappings |-> w.entryMappings]]]

\* lines 46-191: scrapeGoogleForm on the fetched page; data is the value the
\* array literal of the page decodes to
scrapeGoogleForm(content, data) ==
    LET match == findFormData(content)
    IN  IF Len(match) < 2
        THEN ScrapeError("gagal menemukan data form (FB_PUBLIC_LOAD_DATA_)")
        ELSE LET u == unmarshalArray(match[2], data)
                 rawData == u.rawData
             IN  IF ~u.ok THEN ScrapeError("gagal parsing JSON form structure")
                 ELSE IF Len(rawData) < 2 THEN ScrapeError("struktur JSON invalid")
                 ELSE IF rawData[2].t # "arr" \/ Len(rawData[2].a) < 2
                 THEN ScrapeError("gagal akses level 1")
                 ELSE IF rawData[2].a[2].t # "arr"
                 THEN ScrapeError("gagal akses list pertanyaan")
                 ELSE LET lvl1 == rawData[2].a
                          w == walkQuestions(EmptyWalk, lvl1[2].a)
                      IN  [err |-> "nil",
                           data |-> [nil |-> FALSE,
                                     Description |-> IF lvl1[1].t = "str" THEN lvl1[1].s ELSE "",
                                     Questions |-> w.questions,
                                     Saves |-> [FormID |-> "scraped_now",
                                                Fbzx |-> findFbzx(content, rawData),
                                                PageHistory |-> pageHistory(w.pageCount),
                                                EntryIDs |-> w.entryIDs,
                                                EntryMappings |-> w.entryMappings]]]

\* ------------------------------------------------------------------------
\* DataFactFactoryHandler: state
\* ------------------------------------------------------------------------
VARIABLES
    r,              \* the HTTP request: Authorization header, method, body
    env,            \* the process environment and the upstream's behaviour
    hpc,            \* position of the handler goroutine
    status,         \* HTTP status written, 0 while none is
    respData,       \* FactoryResponse written to the client
    headers,        \* resp.Values[0], the header row of Sheet1
    upstream,       \* the calls the handler goroutine has made to Google Sheets
    launched,       \* loop index i of the launch loop
    wg,             \* sync.WaitGroup counter
    mu,             \* sync.Mutex: the goroutine holding it, Free when unlocked
    sem,            \* number of elements in the channel sem
    resultDetails,  \* shared error list
    successCount,   \* shared success counter
    task,           \* the goroutines: position and locals of each
    sheet,          \* rows of Sheet1 below the header, as appended
    gem,            \* a call of callGemini on its own: script, position, result
    scr,            \* a scrape request: the request, the page, position, outcome
    inj,            \* an inject request: the request, the fan-out over its rows
    pf              \* a filter request: the request, the goroutines of the query builder

maxConcurrency == 5
Free == -1

DefaultModel == <<"gemini-2.5-flash">>
FormPlaceholder == "{{ $json.form }}"
N8nPlaceholder == "{{ $json.choices[0].message.content }}"

totalTasks == Len(r.body.SystemPromptFactory)
Tasks == 0..(totalTasks - 1)

\* strings.ReplaceAll for a one-token pattern
RECURSIVE ReplaceAll(_, _, _)
ReplaceAll(s, old, new) ==
    IF s = <<>> THEN <<>>
    ELSE IF Head(s) = old THEN new \o ReplaceAll(Tail(s), old, new)
    ELSE <<Head(s)>> \o ReplaceAll(Tail(s), old, new)

Contains(s, tok) == \E i \in 1..Len(s) : s[i] = tok

\* a cell of the header row: a string or some other JSON value
StrCell(s) == [str |-> TRUE, s |-> s]
OtherCell == [str |-> FALSE, s |-> <<>>]

\* headerIndexMap (lines 812-819): cleaned header -> column, later wins
headerIndexMap(h) ==
    LET cols == {i \in 1..Len(h) : h[i].str}
        clean(i) == ToLower(TrimSpace(h[i].s))
        keys == {clean(i) : i \in cols}
    IN  [k \in keys |-> (CHOOSE i \in cols : clean(i) = k
                            /\ \A j \in cols : clean(j) = k => j <= i) - 1]

\* the columns a key of the decoded JSON maps to (lines 893-905)
cleanKey(jsonKey) == ToLower(TrimSpace(jsonKey))

mappedKeys(dataMap, h) == {k \in dataMap : cleanKey(k) \in DOMAIN headerIndexMap(h)}

\* mappedCount (line 900): one increment per matching key
mappedCount(dataMap, h) == Cardinality(mappedKeys(dataMap, h))

\* rowValues after the mapping loop: "" in the columns no key maps to, and
\* in a column several keys map to the value of the key the map iteration
\* visits last, which is any of them.
rowValuesChoices(dataMap, h) ==
    LET him == headerIndexMap(h)
        hits(c) == {k \in dataMap : cleanKey(k) \in DOMAIN him /\ him[cleanKey(k)] = c}
    IN  {row \in [1..Len(h) -> {<<>>} \cup {jsonVal(k) : k \in dataMap}] :
            \A c \in 1..Len(h) :
                IF hits(c - 1) = {} THEN row[c] = <<>>
                ELSE row[c] \in {jsonVal(k) : k \in hits(c - 1)}}

\* the prompts of the two stages (lines 844-847 and 857-863)
\* a substitution of the first occurrence of the placeholder only
taskUserPromptFirstOnly(body) ==
    LET t == body.UserPromptFactory
        at == {k \in 1..Len(t) : t[k] = FormPlaceholder}
        first == CHOOSE k \in at : \A j \in at : k <= j
    IN  IF body.FormText = <<>> \/ at = {} THEN t
        ELSE SubSeq(t, 1, first - 1) \o body.FormText \o SubSeq(t, first + 1, Len(t))

taskUserPrompt(body) ==
    IF body.FormText # <<>>
    THEN ReplaceAll(body.UserPromptFactory, FormPlaceholder, body.FormText)
    ELSE body.UserPromptFactory

\* the trimmed output and the trimmed template joined by a newline
parserUserPromptTrimmedJoin(body, genResult) ==
    TrimSpace(genResult) \o <<"\n">> \o TrimSpace(body.UserPromptParser)

parserUserPrompt(body, genResult) ==
    IF Contains(body.UserPromptParser, N8nPlaceholder)
    THEN ReplaceAll(body.UserPromptParser, N8nPlaceholder, genResult)
    ELSE body.UserPromptParser \o <<"\n\nInput Text:\n">> \o genResult

\* the key handed to callGemini (lines 848 and 865): the field as received
apiKeyFirstEntry(body) ==
    LET k == body.GeminiAPIKey
        cut == {i \in 1..Len(k) : k[i] = ";"}
    IN  IF cut = {} THEN k
        ELSE SubSeq(k, 1, (CHOOSE i \in cut : \A j \in cut : i <= j) - 1)

\* the field with the blanks around it removed
apiKeyTrimmed(body) == TrimSpace(body.GeminiAPIKey)

apiKeyArg(body) == body.GeminiAPIKey

\* an entry of resultDetails: "Task <idx> <stage>: <cause>"
ErrEntryUntagged(idx, stage, cause) == [idx |-> 0, stage |-> stage, cause |-> cause]

ErrEntry(idx, stage, cause) == [idx |-> idx, stage |-> stage, cause |-> cause]

NoErr == [stage |-> "", cause |-> ""]

IdleTask ==
    [pc |-> "idle", callA |-> NoRequest, callB |-> NoRequest,
     attemptsA |-> 0, attemptsB |-> 0,
     errA |-> "nil", errB |-> "nil",
     genResult |-> <<>>, parsedRawStr |-> <<>>, dataMap |-> {},
     rowValues |-> <<>>, pending |-> NoErr, appends |-> 0, wrote |-> FALSE,
     tmpDetails |-> <<>>, tmpCount |-> 0]

NoResponse == [written |-> FALSE, TotalProcessed |-> 0, SuccessCount |-> 0, Errors |-> <<>>]

vars == <<r, env, hpc, status, respData, headers, upstream, launched, wg, mu, sem,
          resultDetails, successCount, task, sheet, gem, scr, inj, pf>>

\* the variables of the other handlers, which the factory handler leaves alone
notFactory == <<gem, scr, inj, pf>>

\* the variables of the factory handler
factoryVars == <<r, env, hpc, status, respData, headers, upstream, launched, wg, mu, sem,
                 resultDetails, successCount, task, sheet>>

\* ------------------------------------------------------------------------
\* Inputs
\* ------------------------------------------------------------------------
Secret == <<"s">>

\* persona prompt of entry i: i+1 tokens, so that no two entries are equal
Persona(i) == [j \in 1..(i + 1) |-> "p"]

Body(n, key) ==
    [SystemPromptFactory |-> [i \in 1..n |-> Persona(i - 1)],
     UserPromptFactory |-> <<"answer", FormPlaceholder>>,
     UserPromptParser |-> <<"extract">>,
     SystemPromptParser |-> <<"parser">>,
     FormText |-> <<"form">>,
     GeminiAPIKey |-> key,
     SpreadsheetID |-> <<"sheet">>,
     Model |-> <<>>]

\* gemini_api_key with one key and with two ';'-delimited keys
SingleKey == <<"k1">>
DelimitedKeys == <<"k1", ";", "k2">>
\* gemini_api_key without a key in it: blanks around a delimiter
BlankKeys == <<SP, ";", SP>>

GoodRequest(n, key) ==
    [auth |-> BearerPrefix \o Secret, method |-> "POST", bodyOK |-> TRUE,
     body |-> Body(n, key)]

\* the header row of the sheet and what the read of it may return
HeaderRow == <<StrCell(<<"Nama">>), StrCell(<<SP, "Usia">>), OtherCell>>

HeaderReads ==
    {[err |-> TRUE, values |-> <<>>],
     [err |-> FALSE, values |-> <<>>],
     [err |-> FALSE, values |-> <<HeaderRow>>]}

\* texts the upstream generates
DraftText == <<"draft">>
\* a generated text with blanks around it
PaddedDraftText == <<SP, "draft", SP>>
GoodJSONText == <<FENCE, "json", "{Nama}", FENCE>>
ProseText == <<"prose">>
UnmappedJSONText == <<SP, "{foo}">>
\* an object whose one key matches a header and holds the empty string
BlankValueJSONText == <<"{usia:}">>

\* the steps of a task at which the upstream services may misbehave
AllFaults == {"gen", "parse", "json", "nomap", "write"}

\* what the upstream may answer to the one attempt of a call: a goroutine
\* in env.flaky may meet the bad answers of env.faults, the others only
\* good ones
ScriptsA(idx) ==
    {<<ReplyText(DraftText)>>}
    \cup (IF idx \in env.flaky /\ "gen" \in env.faults
          THEN {<<Reply503>>} ELSE {})
    \cup (IF idx \in env.flaky /\ "pad" \in env.faults
          THEN {<<ReplyText(PaddedDraftText)>>} ELSE {})

ScriptsB(idx) ==
    {<<ReplyText(GoodJSONText)>>}
    \cup (IF idx \in env.flaky /\ "parse" \in env.faults THEN {<<Reply503>>} ELSE {})
    \cup (IF idx \in env.flaky /\ "json" \in env.faults
          THEN {<<ReplyText(ProseText)>>} ELSE {})
    \cup (IF idx \in env.flaky /\ "nomap" \in env.faults
          THEN {<<ReplyText(UnmappedJSONText)>>} ELSE {})
    \cup (IF idx \in env.flaky /\ "blank" \in env.faults
          THEN {<<ReplyText(BlankValueJSONText)>>} ELSE {})

AppendOutcomes(idx) ==
    {TRUE} \cup (IF idx \in env.flaky /\ "write" \in env.faults THEN {FALSE} ELSE {})

\* no call of callGemini on its own is in progress
NoResult == [err |-> "nil", status |-> 0, text |-> <<>>, attempts |-> 0]

GemParked == [pc |-> "parked", script |-> <<>>, request |-> NoRequest, result |-> NoResult]

\* InjectResult before it is written
NoInjectResult == [written |-> FALSE, Total |-> 0, Success |-> 0, Failed |-> 0, Details |-> <<>>]

\* FormSaveState as the client sends it back: two questions, the first of
\* them reachable by its label and by a label that reads as a number, and a
\* label whose ID is not among EntryIDs
SampleSaves ==
    [EntryIDs |-> <<1, 2>>,
     EntryMappings |-> {<<"Nama", 1>>, <<"2", 1>>, <<"Kota", 5>>},
     Fbzx |-> <<"f">>]

\* a save state in which two questions share an ID
DupSaves == [EntryIDs |-> <<1, 1>>, EntryMappings |-> {<<"Nama", 1>>}, Fbzx |-> <<"f">>]

\* savesData when the request has no saves (the guard of line 62)
NoSaves == [EntryIDs |-> <<>>, EntryMappings |-> {}, Fbzx |-> <<>>]

\* the elements of rawAnswers after json.Unmarshal: an array, an object
\* held as its set of <<key, value>>, or any other value
ArrayItem(v) == [kind |-> "array", arr |-> v, obj |-> {}]
ObjectItem(v) == [kind |-> "object", arr |-> <<>>, obj |-> v]
OtherItem == [kind |-> "other", arr |-> <<>>, obj |-> {}]

\* a value of an answer is a string unless it is null, an array or a number
isString(val) == val \notin {"nil", "[]", "[a,b]", "42"}

\* Authorization headers: none, the bare secret, the prefix alone, another
\* key, the prefix without its blank or in lower case, the secret with
\* blanks around it, and the secret
AuthHeaders ==
    {<<>>, Secret, BearerPrefix, BearerPrefix \o <<"other">>,
     <<"Bearer">> \o Secret, <<"bearer", SP>> \o Secret,
     BearerPrefix \o <<SP>> \o Secret \o <<SP>>,
     BearerPrefix \o Secret}

\* an inject request: the checks of lines 43-76 on it, the save state and
\* the answers it carries, and the rows whose POST may fail
InjectRequestWith(auth, method, bodyOK, saves, answers, failing) ==
    [auth |-> auth, method |-> method, bodyOK |-> bodyOK, saves |-> saves,
     answers |-> answers, failing |-> failing]

\* an inject request of rows answers in array mode
InjectRequestOf(auth, method, bodyOK, rows, failing) ==
    InjectRequestWith(auth, method, bodyOK, SampleSaves,
                      [i \in 1..rows |-> ArrayItem(<<"a">>)], failing)

\* RowData (lines 80-83)
RowData(AnswersMap, Email) == [AnswersMap |-> AnswersMap, Email |-> Email]

\* fullStructure before the goroutine has built it
NoPayload == [built |-> FALSE, responses |-> {}, emailField |-> "nil", fbzx |-> <<>>]

\* no inject request is in progress
InjParked ==
    [pc |-> "parked", req |-> InjectRequestOf(<<>>, "POST", TRUE, 0, {}),
     finalRows |-> <<>>,
     status |-> 0, launched |-> 0, wg |-> 0, semaphore |-> 0, mu |-> Free,
     successCount |-> 0, failCount |-> 0, resultCap |-> 0, resultChan |-> <<>>,
     row |-> [i \in {} |-> "idle"], payload |-> [i \in {} |-> NoPayload],
     result |-> NoInjectResult]

\* a decoded JSON value of a filter: a number held as twice its value, a
\* string held as its tokens, a boolean, an array, an object or null
FNum(twice) == [t |-> "num", n |-> twice, b |-> FALSE, s |-> <<>>, a |-> <<>>]
FStr(str) == [t |-> "str", n |-> 0, b |-> FALSE, s |-> str, a |-> <<>>]
FBool(b) == [t |-> "bool", n |-> 0, b |-> b, s |-> <<>>, a |-> <<>>]
FArr(elems) == [t |-> "arr", n |-> 0, b |-> FALSE, s |-> <<>>, a |-> elems]
FObj == [t |-> "obj", n |-> 0, b |-> FALSE, s |-> <<>>, a |-> <<>>]
FNull == [t |-> "null", n |-> 0, b |-> FALSE, s |-> <<>>, a |-> <<>>]

\* FilterBody as it arrives (lines 19-24): the raw filter, by what it
\* decodes to and the object in it, as its set of <<key, value>>; and limit
\* and offset, <<>> when absent
FilterBody(kind, object, limit, offset) ==
    [Filter |-> [kind |-> kind, object |-> object], Limit |-> limit, Offset |-> offset]

\* a filter request: the Authorization header, the method, whether the
\* body decodes, FilterBody, and whether SUPABASE_URL and
\* SUPABASE_SERVICE_ROLE_KEY are set
FilterRequest(auth, method, bodyOK, fb, supabase) ==
    [auth |-> auth, method |-> method, bodyOK |-> bodyOK, fb |-> fb, supabase |-> supabase]

\* the mutex of buildPostgrestQuery is held by no goroutine
NoField == <<"-">>

\* buildPostgrestQuery has not returned
NoQuery == [returned |-> FALSE, qs |-> <<>>, err |-> "nil"]

\* no filter request is in progress
PfParked ==
    [pc |-> "parked",
     req |-> FilterRequest(<<>>, "POST", TRUE, FilterBody("absent", {}, <<>>, <<>>), TRUE),
     status |-> 0, filter |-> {}, go |-> [k \in {} |-> "idle"], wg |-> 0, mu |-> NoField,
     errCh |-> <<>>, numBounds |-> {}, stringIn |-> {}, boolEq |-> {}, q |-> {},
     ret |-> NoQuery, prev |-> NoQuery]

\* no scrape request is in progress
ScrParked ==
    [pc |-> "parked",
     req |-> [Authorization |-> <<>>, Method |-> "POST", bodyOK |-> TRUE, FormURL |-> <<>>],
     page |-> [fails |-> FALSE, content |-> <<>>, data |-> JNull],
     ret |-> ScrapeError("none"), status |-> 0, body |-> NilScrape]

InitShared ==
    /\ gem = GemParked
    /\ scr = ScrParked
    /\ inj = InjParked
    /\ pf = PfParked
    /\ hpc = "entry"
    /\ status = 0
    /\ respData = NoResponse
    /\ headers = <<>>
    /\ upstream = <<>>
    /\ launched = 0
    /\ wg = 0
    /\ mu = Free
    /\ sem = 0
    /\ resultDetails = <<>>
    /\ successCount = 0
    /\ sheet = <<>>
    /\ task = [i \in 0..(Len(r.body.SystemPromptFactory) - 1) |-> IdleTask]

\* requests of MaxTasks personas that fail one or two of the checks of
\* lines 760-781
RejectedRequests ==
    LET g == GoodRequest(MaxTasks, DelimitedKeys)
    IN  {[g EXCEPT !.auth = <<>>],
         [g EXCEPT !.auth = Secret],
         [g EXCEPT !.auth = BearerPrefix \o <<"other">>],
         [g EXCEPT !.auth = <<>>, !.method = "GET"],
         [g EXCEPT !.method = "GET"],
         [g EXCEPT !.method = "GET", !.body.SpreadsheetID = <<>>],
         [g EXCEPT !.bodyOK = FALSE],
         [g EXCEPT !.body.SpreadsheetID = <<>>],
         [g EXCEPT !.body.GeminiAPIKey = <<>>],
         [g EXCEPT !.body.SpreadsheetID = <<>>, !.body.GeminiAPIKey = <<>>]}

\* requests of one persona whose prompt fields are empty, padded, or hold
\* their placeholder more than once or not at all
PromptVariantRequests ==
    LET g == GoodRequest(1, DelimitedKeys)
    IN  {[g EXCEPT !.body.FormText = <<>>],
         [g EXCEPT !.body.UserPromptFactory = <<FormPlaceholder, "and", FormPlaceholder>>],
         [g EXCEPT !.body.UserPromptFactory = <<"answer">>],
         [g EXCEPT !.body.UserPromptFactory = <<>>],
         [g EXCEPT !.body.UserPromptParser = <<N8nPlaceholder, "extract", N8nPlaceholder>>],
         [g EXCEPT !.body.UserPromptParser = <<SP, "extract", SP>>],
         [g EXCEPT !.body.UserPromptParser = <<>>],
         [g EXCEPT !.body.SystemPromptParser = <<>>],
         [g EXCEPT !.body.SystemPromptFactory = << <<>> >>]}

\* a well-formed request of up to MaxTasks personas and two delimited keys,
\* a variant of its prompts, or a rejected one; the upstream calls of the
\* first MaxFlaky tasks may fail, pad their text for a prompt variant, and
\* answer a one-persona request with a JSON object of an empty value;
\* DATAFACT_API_KEY or the sheets credentials may be missing
Init ==
    /\ r \in {GoodRequest(n, DelimitedKeys) : n \in 0..MaxTasks}
             \cup {GoodRequest(1, BlankKeys)} \cup RejectedRequests
             \cup PromptVariantRequests
    /\ \E sec \in {Secret, <<>>}, goog \in BOOLEAN :
          /\ (sec = <<>> \/ ~goog) => r = GoodRequest(MaxTasks, DelimitedKeys)
          /\ env = [revision |-> 3, secret |-> sec, google |-> goog,
                    flaky |-> (0..(MaxFlaky - 1)) \cap (0..(Len(r.body.SystemPromptFactory) - 1)),
                    faults |-> IF r \in PromptVariantRequests
                               THEN AllFaults \cup {"pad"}
                               ELSE IF Len(r.body.SystemPromptFactory) = 1
                               THEN AllFaults \cup {"blank"}
                               ELSE AllFaults]
    /\ InitShared

\* a well-formed request of one persona more than the semaphore has slots;
\* the stage-A call of the first of them may fail
SemTasks == maxConcurrency + 1

InitSem ==
    /\ r = GoodRequest(SemTasks, SingleKey)
    /\ env = [revision |-> 3, secret |-> Secret, google |-> TRUE, flaky |-> {0}, faults |-> {"gen"}]
    /\ InitShared

\* ------------------------------------------------------------------------
\* DataFactFactoryHandler: the handler goroutine
\* ------------------------------------------------------------------------
\* the early returns without the check of the required fields
EntryStatusFieldsUnchecked(hr) ==
    IF mustAuthorize(r.auth, env.secret) # "nil" THEN 401
    ELSE IF r.method # "POST" THEN 405
    ELSE IF ~r.bodyOK THEN 400
    ELSE IF ~env.google THEN 500
    ELSE IF hr.err THEN 500
    ELSE IF Len(hr.values) = 0 THEN 400
    ELSE 0

\* the status of the early returns of lines 760-807, 0 when none is taken
EntryStatus(hr) ==
    IF mustAuthorize(r.auth, env.secret) # "nil" THEN 401
    ELSE IF r.method # "POST" THEN 405
    ELSE IF ~r.bodyOK THEN 400
    ELSE IF r.body.SpreadsheetID = <<>> \/ r.body.GeminiAPIKey = <<>> THEN 400
    ELSE IF ~env.google THEN 500
    ELSE IF hr.err THEN 500
    ELSE IF Len(hr.values) = 0 THEN 400
    ELSE 0

\* lines 786-801: the calls to Google Sheets made on the way to the status
\* of EntryStatus: none before the request has passed its checks, the
\* header read only with a service
upstreamCalls ==
    IF \/ mustAuthorize(r.auth, env.secret) # "nil"
       \/ r.method # "POST"
       \/ ~r.bodyOK
       \/ r.body.SpreadsheetID = <<>> \/ r.body.GeminiAPIKey = <<>>
    THEN <<>>
    ELSE IF ~env.google THEN <<"createSheetsServiceWithRefreshToken">>
    ELSE <<"createSheetsServiceWithRefreshToken", "Spreadsheets.Values.Get">>

\* lines 760-822: authorization, method, body, required fields, default
\* model, sheets service, header row
HandlerEntry ==
    /\ hpc = "entry"
    /\ \E hr \in HeaderReads :
        LET code == EntryStatus(hr)
            validated == /\ mustAuthorize(r.auth, env.secret) = "nil"
                         /\ r.method = "POST"
                         /\ r.bodyOK
                         /\ r.body.SpreadsheetID # <<>>
                         /\ r.body.GeminiAPIKey # <<>>
        IN  /\ r' = IF validated /\ r.body.Model = <<>>
                    THEN [r EXCEPT !.body.Model = DefaultModel]
                    ELSE r
            /\ IF code # 0
               THEN /\ status' = code
                    /\ hpc' = "responded"
                    /\ headers' = headers
                    /\ upstream' = upstreamCalls
               ELSE /\ status' = status
                    /\ hpc' = "loop"
                    /\ headers' = hr.values[1]
                    /\ upstream' = upstreamCalls
    /\ UNCHANGED <<env, respData, launched, wg, mu, sem, resultDetails,
                   successCount, task, sheet, notFactory>>

\* lines 835-838: wg.Add(1) and the go statement of one loop iteration
Launch ==
    /\ hpc = "loop"
    /\ launched < totalTasks
    /\ wg' = wg + 1
    /\ task' = [task EXCEPT ![launched].pc = "sem"]
    /\ launched' = launched + 1
    /\ UNCHANGED <<r, env, hpc, status, respData, headers, upstream, mu, sem,
                   resultDetails, successCount, sheet, notFactory>>

\* wg.Wait() returns (line 944)
WaitReturnsAnyway == TRUE

WaitReturns == wg = 0

\* a response that turns a batch without a success into a 500
RespondAllOrNothing ==
    /\ hpc = "loop"
    /\ launched = totalTasks
    /\ WaitReturns
    /\ IF successCount = 0 /\ totalTasks > 0
       THEN status' = 500 /\ respData' = respData
       ELSE /\ status' = 200
            /\ respData' = [written |-> TRUE,
                            TotalProcessed |-> totalTasks,
                            SuccessCount |-> successCount,
                            Errors |-> resultDetails]
    /\ hpc' = "responded"
    /\ UNCHANGED <<r, env, headers, upstream, launched, wg, mu, sem, resultDetails,
                   successCount, task, sheet, notFactory>>

\* lines 944-953: the join, then the response
Respond ==
    /\ hpc = "loop"
    /\ launched = totalTasks
    /\ WaitReturns
    /\ respData' = [written |-> TRUE,
                    TotalProcessed |-> totalTasks,
                    SuccessCount |-> successCount,
                    Errors |-> resultDetails]
    /\ status' = 200
    /\ hpc' = "responded"
    /\ UNCHANGED <<r, env, headers, upstream, launched, wg, mu, sem, resultDetails,
                   successCount, task, sheet, notFactory>>

\* ------------------------------------------------------------------------
\* DataFactFactoryHandler: the goroutine of task idx (lines 838-941)
\* ------------------------------------------------------------------------
UNCHANGED_handler ==
    UNCHANGED <<r, env, hpc, status, respData, headers, upstream, launched, notFactory>>

\* the send on sem can proceed (line 840)
SemHasRoomAlways == TRUE

\* an unbuffered channel in the place of the semaphore: no send proceeds
SemHasRoomNever == FALSE

SemHasRoom == sem < maxConcurrency

Acquire(idx) ==
    /\ task[idx].pc = "sem"
    /\ SemHasRoom
    /\ sem' = sem + 1
    /\ task' = [task EXCEPT ![idx].pc = "genA"]
    /\ UNCHANGED_handler
    /\ UNCHANGED <<wg, mu, resultDetails, successCount, sheet>>

\* stage A without the return of line 853: the task goes on to stage B
GenerateAContinuing(idx) ==
    /\ task[idx].pc = "genA"
    /\ \E script \in ScriptsA(idx) :
        LET persona == r.body.SystemPromptFactory[idx + 1]
            res == callGemini(script)
        IN  task' = [task EXCEPT ![idx] =
                [@ EXCEPT
                    !.callA = GeminiRequest(r.body.Model, r.body.GeminiAPIKey,
                                            persona, taskUserPrompt(r.body)),
                    !.attemptsA = res.attempts,
                    !.errA = res.err,
                    !.genResult = res.text,
                    !.pc = "genB"]]
    /\ UNCHANGED_handler
    /\ UNCHANGED <<wg, mu, sem, resultDetails, successCount, sheet>>

\* lines 843-854: stage A
GenerateA(idx) ==
    /\ task[idx].pc = "genA"
    /\ \E script \in ScriptsA(idx) :
        LET persona == r.body.SystemPromptFactory[idx + 1]
            res == callGemini(script)
        IN  task' = [task EXCEPT ![idx] =
                [@ EXCEPT
                    !.callA = GeminiRequest(r.body.Model, apiKeyArg(r.body),
                                            persona, taskUserPrompt(r.body)),
                    !.attemptsA = res.attempts,
                    !.errA = res.err,
                    !.genResult = res.text,
                    !.pending = IF res.err # "nil"
                                THEN [stage |-> "Gen Fail", cause |-> res.err]
                                ELSE NoErr,
                    !.pc = IF res.err # "nil" THEN "lockErr" ELSE "genB"]]
    /\ UNCHANGED_handler
    /\ UNCHANGED <<wg, mu, sem, resultDetails, successCount, sheet>>

\* lines 856-913: stage B, then the JSON decode and the column mapping of
\* its output
ParseB(idx) ==
    /\ task[idx].pc = "genB"
    /\ \E script \in ScriptsB(idx) :
        LET res == callGemini(script)
            u == Unmarshal(cleanMarkdownJSON(res.text))
            called == [task[idx] EXCEPT
                    !.callB = GeminiRequest(r.body.Model, apiKeyArg(r.body),
                                            r.body.SystemPromptParser,
                                            parserUserPrompt(r.body, task[idx].genResult)),
                    !.attemptsB = res.attempts,
                    !.errB = res.err,
                    !.parsedRawStr = res.text]
        IN  IF res.err # "nil"
            THEN task' = [task EXCEPT ![idx] =
                    [called EXCEPT !.pending = [stage |-> "Parse Fail", cause |-> res.err],
                                   !.pc = "lockErr"]]
            ELSE IF ~u.ok
            THEN task' = [task EXCEPT ![idx] =
                    [called EXCEPT !.pending = [stage |-> "JSON Fail", cause |-> "unmarshal"],
                                   !.pc = "lockErr"]]
            ELSE \E row \in rowValuesChoices(u.dataMap, headers) :
                    task' = [task EXCEPT ![idx] =
                        [called EXCEPT
                            !.dataMap = u.dataMap,
                            !.rowValues = row,
                            !.pending = IF mappedCount(u.dataMap, headers) = 0
                                        THEN [stage |-> "Warning", cause |-> "No columns mapped"]
                                        ELSE NoErr,
                            !.pc = IF mappedCount(u.dataMap, headers) = 0
                                   THEN "lockErr" ELSE "lockWrite"]]
    /\ UNCHANGED_handler
    /\ UNCHANGED <<wg, mu, sem, resultDetails, successCount, sheet>>

\* mu.Lock() can proceed
MutexFreeAlways == TRUE

MutexFree == mu = Free

\* a variant that takes the mutex for the sheet write only: the error
\* paths go on to the error list without it
LockWriteOnly(idx) ==
    /\ task[idx].pc \in {"lockErr", "lockWrite"}
    /\ (task[idx].pc = "lockWrite" => MutexFree)
    /\ mu' = IF task[idx].pc = "lockWrite" THEN idx ELSE mu
    /\ task' = [task EXCEPT ![idx].pc = IF @ = "lockErr" THEN "errLoad" ELSE "write"]
    /\ UNCHANGED_handler
    /\ UNCHANGED <<wg, sem, resultDetails, successCount, sheet>>

\* a variant with the order of the earlier revisions: the append is made
\* without the mutex, which only the error paths take
LockErrorsOnly(idx) ==
    /\ task[idx].pc \in {"lockErr", "lockWrite"}
    /\ (task[idx].pc = "lockErr" => MutexFree)
    /\ mu' = IF task[idx].pc = "lockErr" THEN idx ELSE mu
    /\ task' = [task EXCEPT ![idx].pc = IF @ = "lockErr" THEN "errLoad" ELSE "write"]
    /\ UNCHANGED_handler
    /\ UNCHANGED <<wg, sem, resultDetails, successCount, sheet>>

\* mu.Lock() of lines 850, 867, 877, 909 (error paths) and 928 (write)
Lock(idx) ==
    /\ task[idx].pc \in {"lockErr", "lockWrite"}
    /\ MutexFree
    /\ mu' = idx
    /\ task' = [task EXCEPT ![idx].pc = IF @ = "lockErr" THEN "errLoad" ELSE "write"]
    /\ UNCHANGED_handler
    /\ UNCHANGED <<wg, sem, resultDetails, successCount, sheet>>

\* a variant that repeats a failed append once
WriteSheetRetrying(idx) ==
    /\ task[idx].pc = "write"
    /\ \E ok \in AppendOutcomes(idx) :
        /\ sheet' = IF ok THEN Append(sheet, task[idx].rowValues) ELSE sheet
        /\ task' = [task EXCEPT ![idx] =
                [@ EXCEPT !.appends = @ + 1,
                          !.wrote = ok,
                          !.pending = IF ok THEN NoErr
                                      ELSE [stage |-> "Write Fail", cause |-> "append"],
                          !.pc = IF ok THEN "incLoad"
                                 ELSE IF task[idx].appends = 0 THEN "write"
                                 ELSE "errLoad"]]
    /\ UNCHANGED_handler
    /\ UNCHANGED <<wg, mu, sem, resultDetails, successCount>>

\* lines 929-934: the append request to the sheet, made holding mu
WriteSheet(idx) ==
    /\ task[idx].pc = "write"
    /\ \E ok \in AppendOutcomes(idx) :
        /\ sheet' = IF ok THEN Append(sheet, task[idx].rowValues) ELSE sheet
        /\ task' = [task EXCEPT ![idx] =
                [@ EXCEPT !.appends = @ + 1,
                          !.wrote = ok,
                          !.pending = IF ok THEN NoErr
                                      ELSE [stage |-> "Write Fail", cause |-> "append"],
                          !.pc = IF ok THEN "incLoad" ELSE "errLoad"]]
    /\ UNCHANGED_handler
    /\ UNCHANGED <<wg, mu, sem, resultDetails, successCount>>

\* append(resultDetails, ...) reads the slice ...
LoadDetails(idx) ==
    /\ task[idx].pc = "errLoad"
    /\ task' = [task EXCEPT ![idx] = [@ EXCEPT !.tmpDetails = resultDetails, !.pc = "errStore"]]
    /\ UNCHANGED_handler
    /\ UNCHANGED <<wg, mu, sem, resultDetails, successCount, sheet>>

\* a fail-fast variant: the failing task also cancels the siblings that
\* still wait for a slot
StoreDetailsCancelling(idx) ==
    /\ task[idx].pc = "errStore"
    /\ resultDetails' = Append(task[idx].tmpDetails,
                               ErrEntry(idx, task[idx].pending.stage, task[idx].pending.cause))
    /\ mu' = Free
    /\ task' = [j \in DOMAIN task |->
                    IF j = idx THEN [task[j] EXCEPT !.tmpDetails = <<>>, !.pc = "return"]
                    ELSE IF task[j].pc = "sem" THEN [task[j] EXCEPT !.pc = "done"]
                    ELSE task[j]]
    /\ wg' = wg - Cardinality({j \in DOMAIN task : j # idx /\ task[j].pc = "sem"})
    /\ UNCHANGED_handler
    /\ UNCHANGED <<sem, successCount, sheet>>

\* ... and stores the extended slice; then mu.Unlock() and the return
StoreDetails(idx) ==
    /\ task[idx].pc = "errStore"
    /\ resultDetails' = Append(task[idx].tmpDetails,
                               ErrEntry(idx, task[idx].pending.stage, task[idx].pending.cause))
    /\ mu' = Free
    /\ task' = [task EXCEPT ![idx] = [@ EXCEPT !.tmpDetails = <<>>, !.pc = "return"]]
    /\ UNCHANGED_handler
    /\ UNCHANGED <<wg, sem, successCount, sheet>>

\* successCount++ (line 937) reads the counter ...
LoadCount(idx) ==
    /\ task[idx].pc = "incLoad"
    /\ task' = [task EXCEPT ![idx] = [@ EXCEPT !.tmpCount = successCount, !.pc = "incStore"]]
    /\ UNCHANGED_handler
    /\ UNCHANGED <<wg, mu, sem, resultDetails, successCount, sheet>>

\* ... and stores it incremented; then mu.Unlock() (line 939)
StoreCount(idx) ==
    /\ task[idx].pc = "incStore"
    /\ successCount' = task[idx].tmpCount + 1
    /\ mu' = Free
    /\ task' = [task EXCEPT ![idx] = [@ EXCEPT !.tmpCount = 0, !.pc = "return"]]
    /\ UNCHANGED_handler
    /\ UNCHANGED <<wg, sem, resultDetails, sheet>>

\* a variant with the receive from sem as the last statement of the
\* goroutine and not deferred: the early returns skip it
ReturnWithoutDefer(idx) ==
    /\ task[idx].pc = "return"
    /\ sem' = IF task[idx].wrote THEN sem - 1 ELSE sem
    /\ wg' = wg - 1
    /\ task' = [task EXCEPT ![idx].pc = "done"]
    /\ UNCHANGED_handler
    /\ UNCHANGED <<mu, resultDetails, successCount, sheet>>

\* the return of the goroutine runs its deferred calls: func() { <-sem }()
\* (line 841), then wg.Done() (line 839)
Return(idx) ==
    /\ task[idx].pc = "return"
    /\ sem' = sem - 1
    /\ wg' = wg - 1
    /\ task' = [task EXCEPT ![idx].pc = "done"]
    /\ UNCHANGED_handler
    /\ UNCHANGED <<mu, resultDetails, successCount, sheet>>

\* ------------------------------------------------------------------------
\* callGemini on its own, against a scripted upstream
\* ------------------------------------------------------------------------
\* the answers of the upstream to consecutive attempts
Replies ==
    {ReplyNetErr, Reply503, Reply429, Reply400, Reply403, Reply404, ReplyBadJSON,
     ReplyEmpty, ReplyNoParts, ReplyText(DraftText),
     ReplyEmptyFirstPart(DraftText), ReplyEmptyFirstCandidate(DraftText),
     ReplyEmptyFirstText(DraftText), ReplyTwoTexts(DraftText, ProseText)}

\* what the upstream would answer to further attempts
LaterReplies == {Reply503, ReplyEmpty, ReplyText(DraftText)}

RECURSIVE ScriptsOfLen(_)
ScriptsOfLen(n) ==
    IF n = 0 THEN {<<>>}
    ELSE {Append(sc, rp) : sc \in ScriptsOfLen(n - 1), rp \in LaterReplies}

\* the answers to up to MaxScript attempts: any first answer, then later ones
Scripts ==
    {<<rp>> \o sc : rp \in Replies, sc \in UNION {ScriptsOfLen(n) : n \in 0..(MaxScript - 1)}}

\* the environment while no factory request is in progress
ParkedEnv == [revision |-> 3, secret |-> Secret, google |-> TRUE, flaky |-> {}, faults |-> {}]

\* no factory request is in progress, DATAFACT_API_KEY being sec
FactoryParkedWith(sec) ==
    /\ r = GoodRequest(0, SingleKey)
    /\ env = [ParkedEnv EXCEPT !.secret = sec]
    /\ hpc = "parked"
    /\ status = 0
    /\ respData = NoResponse
    /\ headers = <<>>
    /\ upstream = <<>>
    /\ launched = 0
    /\ wg = 0
    /\ mu = Free
    /\ sem = 0
    /\ resultDetails = <<>>
    /\ successCount = 0
    /\ sheet = <<>>
    /\ task = [i \in {} |-> IdleTask]

\* no factory request is in progress
FactoryParked == FactoryParkedWith(Secret)

InitGemini ==
    /\ FactoryParked
    /\ scr = ScrParked
    /\ inj = InjParked
    /\ pf = PfParked
    /\ \E sc \in Scripts, sys \in {<<>>, <<"parser">>} :
          gem = [pc |-> "call", script |-> sc,
                 request |-> GeminiRequest(DefaultModel, SingleKey, sys, <<"prompt">>),
                 result |-> NoResult]

\* lines 985-1038: the call runs to its return
CallGemini ==
    /\ gem.pc = "call"
    /\ gem' = [gem EXCEPT !.result = callGemini(gem.script), !.pc = "returned"]
    /\ UNCHANGED <<factoryVars, scr, inj, pf>>

NextGemini == CallGemini

SpecGemini == InitGemini /\ [][NextGemini]_vars

\* ------------------------------------------------------------------------
\* ScrapperHandler (form-scrapper.go)
\* ------------------------------------------------------------------------
\* requests that ScrapperHandler answers before it scrapes, and one it scrapes for
GoodScrapeRequest ==
    [Authorization |-> BearerPrefix \o Secret, Method |-> "POST", bodyOK |-> TRUE,
     FormURL |-> <<"url">>]

ScrapeRequests ==
    {GoodScrapeRequest,
     [GoodScrapeRequest EXCEPT !.Authorization = <<>>],
     [GoodScrapeRequest EXCEPT !.Authorization = BearerPrefix \o <<"other">>],
     [GoodScrapeRequest EXCEPT !.Method = "GET"],
     [GoodScrapeRequest EXCEPT !.bodyOK = FALSE],
     [GoodScrapeRequest EXCEPT !.FormURL = <<>>]}

\* entries of the question list, one for each way an entry is taken or skipped
Details(inner) == JArr(<<JArr(inner)>>)

QuestionEntries ==
    {JStr("junk"),
     JArr(<<JInt(1), JStr("S")>>),
     JArr(<<JInt(1), JStr("Sec"), JNull, JInt(8)>>),
     JArr(<<JInt(2), JStr("A"), JNull, JInt(8),
            Details(<<JInt(101), JArr(<<JArr(<<JStr("x")>>)>>)>>)>>),
     JArr(<<JInt(2), JStr("B"), JNull, JNum(17), Details(<<JInt(104)>>)>>),
     JArr(<<JInt(2), JStr("B"), JNull, JStr("8"), Details(<<JInt(102)>>)>>),
     JArr(<<JInt(3), JStr("A"), JNull, JInt(0), Details(<<JInt(101)>>)>>),
     JArr(<<JInt(4), JStr("A"), JNull, JInt(2),
            Details(<<JInt(102), JArr(<<JArr(<<JStr("x")>>), JArr(<<>>), JStr("bad"),
                                        JArr(<<JInt(3)>>)>>)>>)>>),
     JArr(<<JInt(5), JStr(""), JNull, JInt(0), Details(<<JInt(103)>>)>>),
     JArr(<<JInt(6), JNull, JNull, JInt(0), Details(<<JInt(101)>>)>>),
     JArr(<<JInt(7), JStr("C"), JNull, JInt(2)>>),
     JArr(<<JInt(7), JStr("C"), JNull, JInt(2), JStr("nope")>>),
     JArr(<<JInt(7), JStr("C"), JNull, JInt(2), JArr(<<>>)>>),
     JArr(<<JInt(7), JStr("C"), JNull, JInt(2), JArr(<<JStr("nope")>>)>>),
     JArr(<<JInt(7), JStr("C"), JNull, JInt(2), Details(<<>>)>>),
     JArr(<<JInt(7), JStr("C"), JNull, JInt(2), Details(<<JStr("id")>>)>>),
     JArr(<<JInt(8), JStr("D"), JNull, JInt(0), Details(<<JNum(203)>>)>>)}

QuestionLists == UNION {[1..n -> QuestionEntries] : n \in 0..MaxQuestions}

\* the top-level array of a form: a description and a question list at index 1
FormData(desc, questions) == JArr(<<JNull, JArr(<<desc, JArr(questions)>>)>>)

\* the same with a value at index 14
FormDataWithToken(questions, tok) ==
    JArr(<<JNull, JArr(<<JStr("desc"), JArr(questions)>>)>>
         \o [k \in 1..12 |-> JNull] \o <<tok>>)

SampleQuestions ==
    <<JArr(<<JInt(3), JStr("A"), JNull, JInt(0), Details(<<JInt(101)>>)>>),
      JArr(<<JInt(1), JStr("Sec"), JNull, JInt(8)>>)>>

\* top-level arrays that the walk is not reached with, or reached with a token
OddData ==
    {JArr(<<>>), JArr(<<JNull>>), JArr(<<JNull, JStr("x")>>),
     JArr(<<JNull, JArr(<<JStr("desc")>>)>>),
     JArr(<<JNull, JArr(<<JStr("desc"), JStr("notalist")>>)>>),
     FormData(JNull, SampleQuestions)}
    \cup {FormDataWithToken(SampleQuestions, tok) :
             tok \in {JStr("tok14"), JStr(""), JInt(7), JNum(15), JNum(-1), JNull}}

Contents == UNION {[1..n -> HtmlTokens] : n \in 0..MaxHtml}

GoodContent == <<"X", "VAR", "J", ";", "END">>

\* pages: every short page around a sample form, and the well-formed page
\* around every form
Pages ==
    {[fails |-> FALSE, content |-> c, data |-> d] :
        c \in Contents,
        d \in {FormData(JStr("desc"), SampleQuestions),
               FormDataWithToken(SampleQuestions, JStr("tok14"))}}
    \cup {[fails |-> FALSE, content |-> GoodContent, data |-> d] :
            d \in OddData \cup {FormData(JStr("desc"), q) : q \in QuestionLists}}
    \cup {[fails |-> TRUE, content |-> <<>>, data |-> JNull]}

InitScrape ==
    /\ FactoryParked
    /\ gem = GemParked
    /\ inj = InjParked
    /\ pf = PfParked
    /\ \E rq \in ScrapeRequests, pg \in Pages :
          /\ rq # GoodScrapeRequest => pg = [fails |-> TRUE, content |-> <<>>, data |-> JNull]
          /\ scr = [ScrParked EXCEPT !.pc = "entry", !.req = rq, !.page = pg]

\* lines 199-217: the early returns of ScrapperHandler, 0 when none is taken
ScrapeEntryStatus(rq) ==
    IF mustAuthorize(rq.Authorization, env.secret) # "nil" THEN 401
    ELSE IF rq.Method # "POST" THEN 405
    ELSE IF ~rq.bodyOK THEN 400
    ELSE IF rq.FormURL = <<>> THEN 400
    ELSE 0

ScrapperEntry ==
    /\ scr.pc = "entry"
    /\ scr' = IF ScrapeEntryStatus(scr.req) # 0
              THEN [scr EXCEPT !.pc = "done", !.status = ScrapeEntryStatus(scr.req)]
              ELSE [scr EXCEPT !.pc = "fetch"]
    /\ UNCHANGED <<factoryVars, gem, inj, pf>>

\* lines 33-44: the GET of the form page
Fetch ==
    /\ scr.pc = "fetch"
    /\ scr' = IF scr.page.fails
              THEN [scr EXCEPT !.pc = "scraped", !.ret = ScrapeError("transport")]
              ELSE [scr EXCEPT !.pc = "read"]
    /\ UNCHANGED <<factoryVars, gem, inj, pf>>

\* lines 46-191: the rest of scrapeGoogleForm
Scrape ==
    /\ scr.pc = "read"
    /\ scr' = [scr EXCEPT !.pc = "scraped",
                          !.ret = scrapeGoogleForm(scr.page.content, scr.page.data)]
    /\ UNCHANGED <<factoryVars, gem, inj, pf>>

\* lines 219-227: the answer of ScrapperHandler
ScrapeRespond ==
    /\ scr.pc = "scraped"
    /\ scr' = IF scr.ret.err # "nil"
              THEN [scr EXCEPT !.pc = "done", !.status = 500]
              ELSE [scr EXCEPT !.pc = "done", !.status = 200, !.body = scr.ret.data]
    /\ UNCHANGED <<factoryVars, gem, inj, pf>>

NextScrape ==
    \/ ScrapperEntry
    \/ Fetch
    \/ Scrape
    \/ ScrapeRespond

SpecScrape == InitScrape /\ [][NextScrape]_vars

\* ------------------------------------------------------------------------
\* InjectorHandler (form-injector.go): the fan-out of the submissions
\* ------------------------------------------------------------------------
\* maxConcurrency of line 157
injectorConcurrency == 10

\* one row more than there are slots
InjectRows == injectorConcurrency + 1

Rows == DOMAIN inj.row

\* the largest number of rows any of which may fail
MaxFailingRows == 3

\* strconv.ParseInt(key, 10, 64) on the keys that occur: an optional sign
\* and decimal digits
ParseInt(key) ==
    CASE key = "1" -> [ok |-> TRUE, n |-> 1]
      [] key = "2" -> [ok |-> TRUE, n |-> 2]
      [] key = "+2" -> [ok |-> TRUE, n |-> 2]
      [] key = "02" -> [ok |-> TRUE, n |-> 2]
      [] key = "5" -> [ok |-> TRUE, n |-> 5]
      [] key = "9" -> [ok |-> TRUE, n |-> 9]
      [] OTHER -> [ok |-> FALSE, n |-> 0]

\* the condition of line 105
isEmailKey(key) == LowerTok(key) = "email" \/ LowerTok(key) = "email address"

\* a lookup that reads the key as a number before it looks for a label
objectTargetNumericFirst(key, savesData) ==
    LET hits == {e \in savesData.EntryMappings : e[1] = key}
        parsed == ParseInt(key)
    IN  IF parsed.ok /\ parsed.n \in Range(savesData.EntryIDs) THEN {parsed.n}
        ELSE IF hits # {} THEN {e[2] : e \in hits}
        ELSE {}

\* lines 112-131: the IDs under which the value of a key other than an
\* email key is stored, none or one: the ID of the label, else the key
\* read as a number when that number is among EntryIDs
objectTarget(key, savesData) ==
    LET hits == {e \in savesData.EntryMappings : e[1] = key}
        parsed == ParseInt(key)
    IN  IF hits # {} THEN {e[2] : e \in hits}
        ELSE IF parsed.ok /\ parsed.n \in Range(savesData.EntryIDs) THEN {parsed.n}
        ELSE {}

\* lines 94-98: rowMap of an array, a later position of the same ID
\* replacing an earlier one
arrayRowMap(v, savesData) ==
    LET ids == savesData.EntryIDs
        n == IF Len(v) < Len(ids) THEN Len(v) ELSE Len(ids)
        last == {j \in 1..n : \A k \in (j + 1)..n : ids[k] # ids[j]}
    IN  {<<ids[i], v[i]>> : i \in last}

\* lines 103-132: the rowMaps an object can give. The keys are visited in
\* the order of the map iteration, so of two keys stored under one ID
\* either may be the one that stays.
objectRowMaps(v, savesData) ==
    LET stores == {<<id, e[2]>> : <<id, e>> \in
                      {x \in (Range(savesData.EntryIDs)
                              \cup {m[2] : m \in savesData.EntryMappings}) \X v :
                          /\ ~isEmailKey(x[2][1])
                          /\ x[1] \in objectTarget(x[2][1], savesData)}}
        ids == {st[1] : st \in stores}
    IN  {m \in SUBSET stores : \A id \in ids : Cardinality({st \in m : st[1] = id}) = 1}

\* lines 105-110: the values emailAddr can end with
objectEmails(v) ==
    LET mails == {e[2] : e \in {x \in v : isEmailKey(x[1]) /\ isString(x[2])}}
    IN  IF mails = {} THEN {""} ELSE mails

\* lines 88-140: the rows one element of rawAnswers can add to finalRows
normaliseItem(item, savesData) ==
    CASE item.kind = "array" -> {<<RowData(arrayRowMap(item.arr, savesData), "")>>}
      [] item.kind = "object" ->
            {IF m # {} \/ em # "" THEN <<RowData(m, em)>> ELSE <<>> :
                <<m, em>> \in objectRowMaps(item.obj, savesData) \X objectEmails(item.obj)}
      [] OTHER -> {<<>>}

\* the loop of lines 87-141: the values finalRows can end with
RECURSIVE finalRowsChoices(_, _)
finalRowsChoices(rawAnswers, savesData) ==
    IF rawAnswers = <<>> THEN {<<>>}
    ELSE {h \o t : <<h, t>> \in normaliseItem(Head(rawAnswers), savesData)
                                \X finalRowsChoices(Tail(rawAnswers), savesData)}

\* lines 178-191: finalVal of an answer
finalValOf(val) ==
    CASE val = "[]" -> <<>>
      [] val = "[a,b]" -> <<"a", "b">>
      [] OTHER -> <<val>>

\* lines 169-219: fullStructure of a row, responses held as the set of
\* <<entryID, finalVal>> of its entries
buildPayload(rData, savesData) ==
    [built |-> TRUE,
     responses |-> {<<e[1], finalValOf(e[2])>> :
                       e \in {x \in rData.AnswersMap :
                                 x[2] # "nil" /\ finalValOf(x[2]) # <<>>}},
     emailField |-> IF rData.Email # "" THEN rData.Email ELSE "nil",
     fbzx |-> savesData.Fbzx]

\* requests: authorized POSTs of up to MaxFailingRows rows, the POST of any
\* of which may fail, and of InjectRows rows, the POST of whose first row
\* may fail; and a request failing each of the checks
CountedInjectRequests ==
    {InjectRequestOf(BearerPrefix \o Secret, "POST", TRUE, n, 0..(n - 1)) : n \in 0..MaxFailingRows}
    \cup {InjectRequestOf(<<>>, "POST", TRUE, 2, {}),
          InjectRequestOf(BearerPrefix \o Secret, "GET", TRUE, 2, {}),
          InjectRequestOf(BearerPrefix \o Secret, "POST", FALSE, 2, {})}

\* elements of rawAnswers: arrays longer than EntryIDs and with a null
\* value; objects with a label, a label that reads as a number, numbers in
\* and out of EntryIDs, an unknown label and email keys; a bare string
SampleItems ==
    {ArrayItem(<<"a", "b", "c">>),
     ArrayItem(<<"nil", "[a,b]">>),
     ArrayItem(<<>>),
     ObjectItem({<<"Nama", "a">>, <<"2", "b">>, <<"9", "c">>, <<"foo", "d">>,
                 <<"Email", "e@x">>}),
     ObjectItem({<<"2", "b">>}),
     ObjectItem({<<"1", "a">>, <<"+2", "[]">>, <<"02", "42">>}),
     ObjectItem({<<"Kota", "c">>, <<"5", "d">>}),
     ObjectItem({<<"foo", "a">>, <<"nama", "b">>}),
     ObjectItem({<<"email", "42">>, <<"9", "a">>}),
     ObjectItem({<<"email", "e@x">>, <<"Email Address", "f@x">>}),
     OtherItem}

\* the answers of the requests: every element alone, and three lists
SampleAnswers ==
    {<<item>> : item \in SampleItems}
    \cup {<<OtherItem, ArrayItem(<<"a", "b", "c">>), ObjectItem({<<"2", "b">>})>>,
          <<ObjectItem({<<"foo", "a">>, <<"nama", "b">>}),
            ObjectItem({<<"Nama", "a">>, <<"2", "b">>, <<"9", "c">>, <<"foo", "d">>,
                        <<"Email", "e@x">>})>>,
          <<>>}

\* authorized POSTs of the sample answers against each save state
NormaliseRequests ==
    {InjectRequestWith(BearerPrefix \o Secret, "POST", TRUE, saves, answers, {}) :
        <<saves, answers>> \in {SampleSaves, DupSaves, NoSaves} \X SampleAnswers}

SmallInjectRequests == CountedInjectRequests \cup NormaliseRequests

InjectRequests ==
    SmallInjectRequests
    \cup {InjectRequestOf(BearerPrefix \o Secret, "POST", TRUE, InjectRows, {0})}

\* the handler is called with a request
InjectStart(rq) == [InjParked EXCEPT !.pc = "entry", !.req = rq]

InitInject ==
    /\ FactoryParked
    /\ gem = GemParked
    /\ scr = ScrParked
    /\ pf = PfParked
    /\ \E rq \in InjectRequests : inj = InjectStart(rq)

\* a result channel without a buffer
resultChanUnbuffered(total) == 0

\* the capacity of resultChan (line 151)
resultChanCap(total) == total

\* an order of the checks that looks at the method first
InjectEntryStatusMethodFirst(finalRows) ==
    IF inj.req.method # "POST" THEN 405
    ELSE IF mustAuthorize(inj.req.auth, env.secret) # "nil" THEN 401
    ELSE IF ~inj.req.bodyOK THEN 400
    ELSE IF Len(finalRows) = 0 THEN 400
    ELSE 0

\* the early returns of lines 43-146, 0 when none is taken
InjectEntryStatus(finalRows) ==
    IF mustAuthorize(inj.req.auth, env.secret) # "nil" THEN 401
    ELSE IF inj.req.method # "POST" THEN 405
    ELSE IF ~inj.req.bodyOK THEN 400
    ELSE IF Len(finalRows) = 0 THEN 400
    ELSE 0

\* lines 43-158: the checks and the normalisation of the answers, then the
\* counters, the channel of total capacity and the semaphore
InjectorEntry ==
    /\ inj.pc = "entry"
    /\ \E finalRows \in finalRowsChoices(inj.req.answers, inj.req.saves) :
          inj' = IF InjectEntryStatus(finalRows) # 0
                 THEN [inj EXCEPT !.pc = "responded",
                                  !.status = InjectEntryStatus(finalRows)]
                 ELSE [inj EXCEPT !.pc = "loop",
                                  !.finalRows = finalRows,
                                  !.row = [i \in 0..(Len(finalRows) - 1) |-> "idle"],
                                  !.payload = [i \in 0..(Len(finalRows) - 1) |-> NoPayload],
                                  !.resultCap = resultChanCap(Len(finalRows))]
    /\ UNCHANGED <<factoryVars, gem, scr, pf>>

\* lines 160-163: wg.Add(1) and the go statement of one loop iteration
InjectLaunch ==
    /\ inj.pc = "loop"
    /\ inj.launched < Len(inj.finalRows)
    /\ inj' = [inj EXCEPT !.wg = @ + 1,
                          !.row[inj.launched] = "sem",
                          !.launched = @ + 1]
    /\ UNCHANGED <<factoryVars, gem, scr, pf>>

\* the send on semaphore can proceed regardless of the slots taken
InjectSemHasRoomAlways == TRUE

\* the send on semaphore can proceed (line 166)
InjectSemHasRoom == inj.semaphore < injectorConcurrency

\* line 166: the goroutine of row idx takes a slot; it then builds its
\* payload and sends the POST (lines 169-238)
InjectAcquire(idx) ==
    /\ inj.row[idx] = "sem"
    /\ InjectSemHasRoom
    /\ inj' = [inj EXCEPT !.semaphore = @ + 1, !.row[idx] = "post",
                          !.payload[idx] = buildPayload(inj.finalRows[idx + 1],
                                                        inj.req.saves)]
    /\ UNCHANGED <<factoryVars, gem, scr, pf>>

\* mu.Lock() can proceed (line 240)
InjectMutexFree == inj.mu = Free

\* lines 238-240: the POST of row idx returns, with or without success,
\* and the goroutine takes mu
InjectLock(idx) ==
    /\ inj.row[idx] = "post"
    /\ InjectMutexFree
    /\ \E ok \in IF idx \in inj.req.failing THEN BOOLEAN ELSE {TRUE} :
          inj' = [inj EXCEPT !.mu = idx,
                             !.row[idx] = IF ok THEN "critOk" ELSE "critFail"]
    /\ UNCHANGED <<factoryVars, gem, scr, pf>>

\* the send on resultChan can proceed (line 260): nothing receives from
\* the channel before the join, so it needs room in the buffer
ResultChanHasRoom == Len(inj.resultChan) < inj.resultCap

\* a variant with the send of line 244 enabled: a success is reported on
\* resultChan too
InjectRecordReportingAll(idx) ==
    /\ inj.row[idx] \in {"critOk", "critFail"}
    /\ ResultChanHasRoom
    /\ inj' = [inj EXCEPT
                  !.successCount = IF inj.row[idx] = "critOk" THEN @ + 1 ELSE @,
                  !.failCount = IF inj.row[idx] = "critOk" THEN @ ELSE @ + 1,
                  !.resultChan = Append(@, idx),
                  !.mu = Free,
                  !.semaphore = @ - 1,
                  !.wg = @ - 1,
                  !.row[idx] = "done"]
    /\ UNCHANGED <<factoryVars, gem, scr, pf>>

\* lines 241-269: holding mu the outcome is counted and a failure sent on
\* resultChan; then mu.Unlock(), the body closed, and the deferred receive
\* from semaphore and wg.Done()
InjectRecord(idx) ==
    /\ inj.row[idx] \in {"critOk", "critFail"}
    /\ (inj.row[idx] = "critFail" => ResultChanHasRoom)
    /\ inj' = [inj EXCEPT
                  !.successCount = IF inj.row[idx] = "critOk" THEN @ + 1 ELSE @,
                  !.failCount = IF inj.row[idx] = "critOk" THEN @ ELSE @ + 1,
                  !.resultChan = IF inj.row[idx] = "critOk" THEN @ ELSE Append(@, idx),
                  !.mu = Free,
                  !.semaphore = @ - 1,
                  !.wg = @ - 1,
                  !.row[idx] = "done"]
    /\ UNCHANGED <<factoryVars, gem, scr, pf>>

\* wg.Wait() returns without waiting for the counter
InjectWaitReturnsAnyway == TRUE

\* wg.Wait() returns (line 272)
InjectWaitReturns == inj.wg = 0

\* lines 272-286: the join, the channel closed and drained, the response
InjectRespond ==
    /\ inj.pc = "loop"
    /\ inj.launched = Len(inj.finalRows)
    /\ InjectWaitReturns
    /\ inj' = [inj EXCEPT
                  !.pc = "responded",
                  !.status = 200,
                  !.result = [written |-> TRUE,
                              Total |-> Len(inj.finalRows),
                              Success |-> inj.successCount,
                              Failed |-> inj.failCount,
                              Details |-> inj.resultChan]]
    /\ UNCHANGED <<factoryVars, gem, scr, pf>>

NextInject ==
    \/ InjectorEntry
    \/ InjectLaunch
    \/ InjectRespond
    \/ \E idx \in Rows : InjectAcquire(idx)
    \/ \E idx \in Rows : InjectLock(idx)
    \/ \E idx \in Rows : InjectRecord(idx)

\* lines 238-269 in one step: the POST of row idx returns and the section
\* under mu, which no other goroutine can enter meanwhile, is run to the
\* return of the goroutine
InjectSubmit(idx) ==
    /\ inj.row[idx] = "post"
    /\ InjectMutexFree
    /\ \E ok \in IF idx \in inj.req.failing THEN BOOLEAN ELSE {TRUE} :
          /\ ~ok => ResultChanHasRoom
          /\ inj' = [inj EXCEPT
                        !.successCount = IF ok THEN @ + 1 ELSE @,
                        !.failCount = IF ok THEN @ ELSE @ + 1,
                        !.resultChan = IF ok THEN @ ELSE Append(@, idx),
                        !.semaphore = @ - 1,
                        !.wg = @ - 1,
                        !.row[idx] = "done"]
    /\ UNCHANGED <<factoryVars, gem, scr, pf>>

\* the fan-out with the section under mu taken as one step
NextInjectSubmit ==
    \/ InjectorEntry
    \/ InjectLaunch
    \/ InjectRespond
    \/ \E idx \in Rows : InjectAcquire(idx)
    \/ \E idx \in Rows : InjectSubmit(idx)

SpecInject == InitInject /\ [][NextInjectSubmit]_vars

\* the requests of few rows only
InitInjectSmall ==
    /\ FactoryParked
    /\ gem = GemParked
    /\ scr = ScrParked
    /\ pf = PfParked
    /\ \E rq \in SmallInjectRequests : inj = InjectStart(rq)

SpecInjectSmall == InitInjectSmall /\ [][NextInject]_vars

\* ------------------------------------------------------------------------
\* Handler (persona-filter.go): the filter endpoint and buildPostgrestQuery
\* ------------------------------------------------------------------------
\* the largest number of fields of a filter
MaxFields == 2

\* the columns of lines 47-70 that occur in the filters
numericCols == {"usia", "jumlah_anak"}
booleanCols == {"is_active"}
stringCols == {"nama", "pekerjaan"}

NoBase == [ok |-> FALSE, base |-> "", bound |-> ""]

\* lines 72-82: a field that is a numeric column followed by _min or _max
baseNumericField(field) ==
    IF Len(field) = 2 /\ field[1] \in numericCols /\ field[2] \in {"_min", "_max"}
    THEN [ok |-> TRUE, base |-> field[1], bound |-> IF field[2] = "_min" THEN "min" ELSE "max"]
    ELSE NoBase

\* lines 88-112: the map a raw filter is normalised to, or the error
normalizeFilter(raw) ==
    CASE raw.kind \in {"absent", "null", "blank"} -> [err |-> "nil", asMap |-> {}]
      [] raw.kind \in {"object", "string"} -> [err |-> "nil", asMap |-> raw.object]
      [] raw.kind = "badstring" -> [err |-> "string filter bukan JSON valid", asMap |-> {}]
      [] OTHER -> [err |-> "filter harus object atau string JSON", asMap |-> {}]

\* utils.go lines 102-119
toStringSlice(v) ==
    CASE v.t = "str" -> [ok |-> TRUE, out |-> <<v.s>>]
      [] v.t = "arr" ->
            IF \A i \in 1..Len(v.a) : v.a[i].t = "str"
            THEN [ok |-> TRUE, out |-> [i \in 1..Len(v.a) |-> v.a[i].s]]
            ELSE [ok |-> FALSE, out |-> <<>>]
      [] OTHER -> [ok |-> FALSE, out |-> <<>>]

\* utils.go lines 121-135
toBool(v) ==
    CASE v.t = "bool" -> [ok |-> TRUE, b |-> v.b]
      [] v.t = "str" ->
            IF ToLower(TrimSpace(v.s)) = <<"true">> THEN [ok |-> TRUE, b |-> TRUE]
            ELSE IF ToLower(TrimSpace(v.s)) = <<"false">> THEN [ok |-> TRUE, b |-> FALSE]
            ELSE [ok |-> FALSE, b |-> FALSE]
      [] OTHER -> [ok |-> FALSE, b |-> FALSE]

\* utils.go lines 137-148: a decoded JSON number is a float64
toInt64(v) ==
    CASE v.t = "num" -> [ok |-> TRUE, n |-> TruncInt(v)]
      [] v.t = "str" ->
            IF Len(TrimSpace(v.s)) = 1 THEN ParseInt(TrimSpace(v.s)[1])
            ELSE [ok |-> FALSE, n |-> 0]
      [] OTHER -> [ok |-> FALSE, n |-> 0]

\* the write a goroutine makes under mu, none when it returns without one
NoWrite == [kind |-> "none", col |-> "", bound |-> "", n |-> 0, b |-> FALSE, vals |-> <<>>]

\* lines 141-205 without the locking: what the goroutine of a field writes,
\* by the class of the field and the conversion of the value
fieldWrite(field, value) ==
    IF baseNumericField(field).ok
    THEN IF toInt64(value).ok
         THEN [NoWrite EXCEPT !.kind = "bound", !.col = baseNumericField(field).base,
                              !.bound = baseNumericField(field).bound,
                              !.n = toInt64(value).n]
         ELSE NoWrite
    ELSE IF Len(field) = 1 /\ field[1] \in booleanCols
    THEN IF toBool(value).ok
         THEN [NoWrite EXCEPT !.kind = "bool", !.col = field[1], !.b = toBool(value).b]
         ELSE NoWrite
    ELSE IF Len(field) = 1 /\ field[1] \in stringCols
    THEN IF toStringSlice(value).ok
         THEN [NoWrite EXCEPT !.kind = "in", !.col = field[1], !.vals = toStringSlice(value).out]
         ELSE NoWrite
    ELSE IF Len(field) = 1 /\ field[1] \in numericCols
    THEN IF toStringSlice(value).ok
         THEN [NoWrite EXCEPT !.kind = "in", !.col = field[1], !.vals = toStringSlice(value).out]
         ELSE IF toInt64(value).ok
         THEN [NoWrite EXCEPT !.kind = "eq", !.col = field[1], !.n = toInt64(value).n]
         ELSE NoWrite
    ELSE NoWrite

\* m[k] of a map held as a set of <<key, sequence>>, <<>> without the key
ValuesOf(m, k) == IF \E e \in m : e[1] = k THEN (CHOOSE e \in m : e[1] = k)[2] ELSE <<>>

\* url.Values.Add and url.Values.Set
Add(q, key, value) == MapPut(q, key, Append(ValuesOf(q, key), value))
Set(q, key, value) == MapPut(q, key, <<value>>)

\* the place of a key in the sorted keys of url.Values.Encode
keyRank(key) ==
    CASE key = "is_active" -> 1
      [] key = "jumlah_anak" -> 2
      [] key = "limit" -> 3
      [] key = "nama" -> 4
      [] key = "offset" -> 5
      [] key = "pekerjaan" -> 6
      [] key = "select" -> 7
      [] key = "usia" -> 8

RECURSIVE sortedKeys(_)
sortedKeys(keys) ==
    IF keys = {} THEN <<>>
    ELSE LET k == CHOOSE x \in keys : \A y \in keys : keyRank(x) <= keyRank(y)
         IN  <<k>> \o sortedKeys(keys \ {k})

\* url.Values.Encode: key=value joined by "&", the keys sorted and the
\* values of a key in the order they were added (the escaping of the
\* values, one to one, is left out)
Encode(q) ==
    LET keys == sortedKeys({e[1] : e \in {x \in q : Len(x[2]) > 0}})
        pairs(k) == Join([j \in 1..Len(ValuesOf(q, k)) |-> <<k, "=">> \o ValuesOf(q, k)[j]],
                         <<"&">>)
    IN  Join([i \in 1..Len(keys) |-> pairs(keys[i])], <<"&">>)

\* strings.ReplaceAll(v, `"`, `\"`) and the quotes around it (lines 232-233)
quoted(v) == <<"\"">> \o [i \in 1..Len(v) |-> IF v[i] = "\"" THEN "\\\"" ELSE v[i]] \o <<"\"">>

\* lines 218-250: the parameters added after the join. The three loops
\* visit the columns of a map in any order; a column is added to under its
\* own key, so the values of a key are those added by the goroutines, then
\* gte, lte, in and eq of the column in this order.
render(st, fb) ==
    LET cols == {e[1] : e \in st.q} \cup {e[1] : e \in st.numBounds}
                \cup {e[1] : e \in st.stringIn} \cup {e[1] : e \in st.boolEq}
        bounds(col, bound, op) ==
            IF \E e \in st.numBounds : e[1] = col /\ e[2] = bound
            THEN <<(<<op>> \o Itoa((CHOOSE e \in st.numBounds : e[1] = col /\ e[2] = bound)[3]))>>
            ELSE <<>>
        ins(col) ==
            IF Len(ValuesOf(st.stringIn, col)) = 0 THEN <<>>
            ELSE <<(<<"in.(">>
                     \o Join([i \in 1..Len(ValuesOf(st.stringIn, col)) |->
                                 quoted(ValuesOf(st.stringIn, col)[i])], <<",">>)
                     \o <<")">>)>>
        bools(col) ==
            IF \E e \in st.boolEq : e[1] = col
            THEN (IF (CHOOSE e \in st.boolEq : e[1] = col)[2] THEN << <<"eq.true">> >>
                  ELSE << <<"eq.false">> >>)
            ELSE <<>>
        added == {<<col, ValuesOf(st.q, col) \o bounds(col, "min", "gte.")
                         \o bounds(col, "max", "lte.") \o ins(col) \o bools(col)>> :
                     col \in cols}
        limited == IF fb.Limit # <<>> THEN Set(added, "limit", Itoa(fb.Limit[1])) ELSE added
    IN  IF fb.Offset # <<>> THEN Set(limited, "offset", Itoa(fb.Offset[1])) ELSE limited

\* the values a filter is made of, by the key they stand under
FilterFields ==
    {<<<<"nama">>, FStr(<<"a">>)>>,
     <<<<SP, "nama">>, FStr(<<"b">>)>>,
     <<<<"pekerjaan">>, FArr(<<FStr(<<"x">>), FNum(4)>>)>>,
     <<<<"pekerjaan", SP>>, FNull>>,
     <<<<"usia", "_min">>, FNum(37)>>,
     <<<<SP, "usia", "_min">>, FStr(<<SP, "2">>)>>,
     <<<<"usia", "_max">>, FStr(<<"x">>)>>,
     <<<<"usia">>, FNum(10)>>,
     <<<<"usia", SP>>, FStr(<<"9">>)>>,
     <<<<"jumlah_anak">>, FBool(TRUE)>>,
     <<<<"is_active">>, FBool(TRUE)>>,
     <<<<SP, "is_active">>, FStr(<<"False">>)>>,
     <<<<"foo">>, FStr(<<"a">>)>>,
     <<<<SP>>, FStr(<<"a">>)>>}

\* the filter objects of up to MaxFields fields
FilterObjects == {o \in SUBSET FilterFields : Cardinality(o) <= MaxFields}

GoodFilter == {<<<<"nama">>, FStr(<<"a">>)>>, <<<<"usia", "_min">>, FNum(37)>>}

\* requests: authorized POSTs of every filter object; one filter as a
\* string, with limit and offset, and the raw filters without an object;
\* and the requests that fail a check
FilterRequests ==
    {FilterRequest(BearerPrefix \o Secret, "POST", TRUE, FilterBody("object", o, <<>>, <<>>), TRUE) :
        o \in FilterObjects}
    \cup {FilterRequest(BearerPrefix \o Secret, "POST", TRUE, FilterBody(kind, o, <<5>>, <<0>>), TRUE) :
            <<kind, o>> \in {<<"string", GoodFilter>>, <<"absent", {}>>, <<"null", {}>>,
                             <<"blank", {}>>, <<"badstring", {}>>, <<"number", {}>>}}
    \cup {FilterRequest(auth, method, TRUE, FilterBody("object", GoodFilter, <<>>, <<>>), TRUE) :
            auth \in AuthHeaders, method \in {"GET", "POST"}}
    \cup {FilterRequest(BearerPrefix \o Secret, "POST", FALSE, FilterBody("absent", {}, <<>>, <<>>), TRUE),
          FilterRequest(BearerPrefix \o Secret, "POST", TRUE, FilterBody("object", GoodFilter, <<>>, <<>>), FALSE)}

\* a filter request arrives; DATAFACT_API_KEY may be unset
InitFilter ==
    /\ gem = GemParked
    /\ scr = ScrParked
    /\ inj = InjParked
    /\ \E sec \in {Secret, <<>>} : FactoryParkedWith(sec)
    /\ \E rq \in FilterRequests : pf = [PfParked EXCEPT !.pc = "entry", !.req = rq]

\* the early returns of lines 261-293, 0 when none is taken
FilterEntryStatus ==
    IF mustAuthorize(pf.req.auth, env.secret) # "nil" THEN 401
    ELSE IF pf.req.method # "POST" THEN 405
    ELSE IF pf.req.supabase /\ ~pf.req.bodyOK THEN 400
    ELSE IF pf.req.supabase /\ normalizeFilter(pf.req.fb.Filter).err # "nil" THEN 400
    ELSE 0

\* lines 259-296 and 119-130: the checks, the configuration (mustenv panics
\* without its variable, and the server drops the connection), the body and
\* the filter; then the start of buildPostgrestQuery
FilterEntry ==
    /\ pf.pc = "entry"
    /\ pf' = IF FilterEntryStatus # 0
             THEN [pf EXCEPT !.pc = "responded", !.status = FilterEntryStatus]
             ELSE IF ~pf.req.supabase THEN [pf EXCEPT !.pc = "panicked"]
             ELSE LET filter == normalizeFilter(pf.req.fb.Filter).asMap
                  IN  [pf EXCEPT !.pc = "build",
                                 !.filter = filter,
                                 !.go = [k \in {e[1] : e \in filter} |-> "idle"],
                                 !.q = Set({}, "select", <<"*">>)]
    /\ UNCHANGED <<factoryVars, gem, scr, inj>>

\* filter[key]
FilterValue(key) == (CHOOSE e \in pf.filter : e[1] = key)[2]

\* lines 132-138: one iteration of the loop over the filter, in the order
\* of the map iteration: a blank key or a nil value is passed over, any
\* other field gets its goroutine
FilterLaunch(key) ==
    /\ pf.pc = "build"
    /\ pf.go[key] = "idle"
    /\ pf' = IF TrimSpace(key) = <<>> \/ FilterValue(key).t = "null"
             THEN [pf EXCEPT !.go[key] = "skipped"]
             ELSE [pf EXCEPT !.wg = @ + 1, !.go[key] = "run"]
    /\ UNCHANGED <<factoryVars, gem, scr, inj>>

\* mu.Lock() can proceed
FilterMutexFree == pf.mu = NoField

\* a goroutine that reports the value it cannot convert on errCh
FilterConvertReporting(key) ==
    /\ pf.pc = "build"
    /\ pf.go[key] = "run"
    /\ IF fieldWrite(TrimSpace(key), FilterValue(key)).kind = "none"
       THEN pf' = [pf EXCEPT !.go[key] = "done", !.wg = @ - 1,
                             !.errCh = Append(@, "nilai tidak valid")]
       ELSE /\ FilterMutexFree
            /\ pf' = [pf EXCEPT !.go[key] = "crit", !.mu = key]
    /\ UNCHANGED <<factoryVars, gem, scr, inj>>

\* lines 139-196: the goroutine of a field classifies it and converts its
\* value; it returns when there is nothing to write, and takes mu otherwise
FilterConvert(key) ==
    /\ pf.pc = "build"
    /\ pf.go[key] = "run"
    /\ IF fieldWrite(TrimSpace(key), FilterValue(key)).kind = "none"
       THEN pf' = [pf EXCEPT !.go[key] = "done", !.wg = @ - 1]
       ELSE /\ FilterMutexFree
            /\ pf' = [pf EXCEPT !.go[key] = "crit", !.mu = key]
    /\ UNCHANGED <<factoryVars, gem, scr, inj>>

\* lines 149-158, 169-171, 182-184, 191-193, 197-199: the write under mu,
\* mu.Unlock() and the return with the deferred wg.Done()
FilterWrite(key) ==
    /\ pf.pc = "build"
    /\ pf.go[key] = "crit"
    /\ LET w == fieldWrite(TrimSpace(key), FilterValue(key))
       IN  pf' = [pf EXCEPT
                     !.numBounds = IF w.kind = "bound"
                                   THEN {e \in @ : ~(e[1] = w.col /\ e[2] = w.bound)}
                                        \cup {<<w.col, w.bound, w.n>>}
                                   ELSE @,
                     !.boolEq = IF w.kind = "bool" THEN MapPut(@, w.col, w.b) ELSE @,
                     !.stringIn = IF w.kind = "in"
                                  THEN MapPut(@, w.col, ValuesOf(@, w.col) \o w.vals)
                                  ELSE @,
                     !.q = IF w.kind = "eq" THEN Add(@, w.col, <<"eq.">> \o Itoa(w.n)) ELSE @,
                     !.mu = NoField,
                     !.wg = @ - 1,
                     !.go[key] = "done"]
    /\ UNCHANGED <<factoryVars, gem, scr, inj>>

\* lines 209-253: wg.Wait() returns, errCh is closed and drained, and the
\* query is rendered and encoded
FilterRender ==
    /\ pf.pc = "build"
    /\ \A key \in DOMAIN pf.go : pf.go[key] # "idle"
    /\ pf.wg = 0
    /\ pf' = [pf EXCEPT
                 !.pc = "returned",
                 !.ret = IF pf.errCh # <<>>
                         THEN [returned |-> TRUE, qs |-> <<>>, err |-> pf.errCh[1]]
                         ELSE [returned |-> TRUE, qs |-> Encode(render(pf, pf.req.fb)),
                               err |-> "nil"]]
    /\ UNCHANGED <<factoryVars, gem, scr, inj>>

\* what the GET to the store comes back with: a status, or 0 for the error
\* of fastClient.Do
StoreOutcomes == {0, 200, 400}

\* lines 297-336: the error of buildPostgrestQuery, else the GET to the
\* store and its answer passed on
FilterForward ==
    /\ pf.pc = "returned"
    /\ \E outcome \in StoreOutcomes :
          pf' = [pf EXCEPT !.pc = "responded",
                           !.status = IF pf.ret.err # "nil" THEN 400
                                      ELSE IF outcome = 0 THEN 502
                                      ELSE outcome]
    /\ UNCHANGED <<factoryVars, gem, scr, inj>>

\* the same request arrives once more: Handler is called on it again, the
\* query of the first call kept to set it against that of the second
FilterAgain ==
    /\ pf.pc = "responded"
    /\ pf.ret.returned
    /\ ~pf.prev.returned
    /\ pf' = [PfParked EXCEPT !.pc = "entry", !.req = pf.req, !.prev = pf.ret]
    /\ UNCHANGED <<factoryVars, gem, scr, inj>>

NextFilter ==
    \/ FilterEntry
    \/ FilterRender
    \/ FilterForward
    \/ FilterAgain
    \/ \E key \in DOMAIN pf.go : FilterLaunch(key)
    \/ \E key \in DOMAIN pf.go : FilterConvert(key)
    \/ \E key \in DOMAIN pf.go : FilterWrite(key)

SpecFilter == InitFilter /\ [][NextFilter]_vars

Next ==
    \/ HandlerEntry
    \/ Launch
    \/ Respond
    \/ \E idx \in Tasks : Acquire(idx)
    \/ \E idx \in Tasks : GenerateA(idx)
    \/ \E idx \in Tasks : ParseB(idx)
    \/ \E idx \in Tasks : Lock(idx)
    \/ \E idx \in Tasks : WriteSheet(idx)
    \/ \E idx \in Tasks : LoadDetails(idx)
    \/ \E idx \in Tasks : StoreDetails(idx)
    \/ \E idx \in Tasks : LoadCount(idx)
    \/ \E idx \in Tasks : StoreCount(idx)
    \/ \E idx \in Tasks : Return(idx)

Spec == Init /\ [][Next]_vars

SpecSem == InitSem /\ [][Next]_vars

\* ------------------------------------------------------------------------
\* The three handlers behind mustAuthorize
\* ------------------------------------------------------------------------
\* a request to the factory, the injector or the filter handler, with each
\* Authorization header and with GET or POST; DATAFACT_API_KEY may be unset
InitAuth ==
    \/ /\ r \in {[GoodRequest(1, SingleKey) EXCEPT !.auth = auth, !.method = method] :
                    auth \in AuthHeaders, method \in {"GET", "POST"}}
       /\ \E sec \in {Secret, <<>>} :
             env = [revision |-> 3, secret |-> sec, google |-> TRUE, flaky |-> {0},
                    faults |-> AllFaults]
       /\ InitShared
    \/ /\ \E sec \in {Secret, <<>>} : FactoryParkedWith(sec)
       /\ gem = GemParked
       /\ scr = ScrParked
       /\ pf = PfParked
       /\ \E auth \in AuthHeaders, method \in {"GET", "POST"} :
             inj = InjectStart(InjectRequestOf(auth, method, TRUE, 1, {0}))
    \/ InitFilter

NextAuth ==
    \/ Next
    \/ NextInject
    \/ NextFilter

SpecAuth == InitAuth /\ [][NextAuth]_vars

\* ------------------------------------------------------------------------
\* DataFactFactoryHandler, second revision (lines 418-600): the goroutine
\* appends to the sheet before it takes the mutex. Its checks, its header
\* read, its loop, its join and its response are those of the latest
\* revision; the first revision (lines 70-245) has the same goroutine with
\* a header map that is trimmed only.
\* ------------------------------------------------------------------------
\* lines 499-511: stage A
GenerateARev2(idx) ==
    /\ task[idx].pc = "genA"
    /\ \E script \in ScriptsA(idx) :
        LET persona == r.body.SystemPromptFactory[idx + 1]
            res == callGemini(script)
        IN  task' = [task EXCEPT ![idx] =
                [@ EXCEPT
                    !.callA = GeminiRequest(r.body.Model, apiKeyArg(r.body),
                                            persona, taskUserPrompt(r.body)),
                    !.attemptsA = res.attempts,
                    !.errA = res.err,
                    !.genResult = res.text,
                    !.pending = IF res.err # "nil"
                                THEN [stage |-> "Gen Error", cause |-> res.err]
                                ELSE NoErr,
                    !.pc = IF res.err # "nil" THEN "lockErr" ELSE "genB"]]
    /\ UNCHANGED_handler
    /\ UNCHANGED <<wg, mu, sem, resultDetails, successCount, sheet>>

\* lines 513-568: stage B, the JSON decode and the column mapping; a row
\* without a mapped column is only logged (line 566) and goes on to the
\* append
ParseBRev2(idx) ==
    /\ task[idx].pc = "genB"
    /\ \E script \in ScriptsB(idx) :
        LET res == callGemini(script)
            u == Unmarshal(cleanMarkdownJSON(res.text))
            called == [task[idx] EXCEPT
                    !.callB = GeminiRequest(r.body.Model, apiKeyArg(r.body),
                                            r.body.SystemPromptParser,
                                            parserUserPrompt(r.body, task[idx].genResult)),
                    !.attemptsB = res.attempts,
                    !.errB = res.err,
                    !.parsedRawStr = res.text]
        IN  IF res.err # "nil"
            THEN task' = [task EXCEPT ![idx] =
                    [called EXCEPT !.pending = [stage |-> "Parse Error", cause |-> res.err],
                                   !.pc = "lockErr"]]
            ELSE IF ~u.ok
            THEN task' = [task EXCEPT ![idx] =
                    [called EXCEPT !.pending = [stage |-> "JSON Error", cause |-> "unmarshal"],
                                   !.pc = "lockErr"]]
            ELSE \E row \in rowValuesChoices(u.dataMap, headers) :
                    task' = [task EXCEPT ![idx] =
                        [called EXCEPT !.dataMap = u.dataMap,
                                       !.rowValues = row,
                                       !.pc = "append"]]
    /\ UNCHANGED_handler
    /\ UNCHANGED <<wg, mu, sem, resultDetails, successCount, sheet>>

\* lines 570-582: the append request returns; the task made it without
\* holding mu
AppendRev2(idx) ==
    /\ task[idx].pc = "append"
    /\ \E ok \in AppendOutcomes(idx) :
        /\ sheet' = IF ok THEN Append(sheet, task[idx].rowValues) ELSE sheet
        /\ task' = [task EXCEPT ![idx] =
                [@ EXCEPT !.appends = @ + 1,
                          !.wrote = ok,
                          !.pending = IF ok THEN NoErr
                                      ELSE [stage |-> "Sheet Write Error", cause |-> "append"],
                          !.pc = IF ok THEN "lockInc" ELSE "lockErr"]]
    /\ UNCHANGED_handler
    /\ UNCHANGED <<wg, mu, sem, resultDetails, successCount>>

\* mu.Lock() of lines 507, 525, 535, 578 (error paths) and 584 (counter)
LockRev2(idx) ==
    /\ task[idx].pc \in {"lockErr", "lockInc"}
    /\ MutexFree
    /\ mu' = idx
    /\ task' = [task EXCEPT ![idx].pc = IF @ = "lockErr" THEN "errLoad" ELSE "incLoad"]
    /\ UNCHANGED_handler
    /\ UNCHANGED <<wg, sem, resultDetails, successCount, sheet>>

\* the second revision with more personas than slots, or the latest one
\* with MaxTasks personas, where the append of the first task may fail
InitRevisions ==
    /\ \E rev \in {2, 3} :
          /\ r = GoodRequest(IF rev = 2 THEN SemTasks ELSE MaxTasks, SingleKey)
          /\ env = [revision |-> rev, secret |-> Secret, google |-> TRUE,
                    flaky |-> IF rev = 2 THEN {} ELSE {0}, faults |-> {"write"}]
    /\ InitShared

\* the goroutine of the revision that is deployed
NextRevisions ==
    \/ HandlerEntry
    \/ Launch
    \/ Respond
    \/ \E idx \in Tasks : Acquire(idx)
    \/ \E idx \in Tasks : env.revision = 3 /\ GenerateA(idx)
    \/ \E idx \in Tasks : env.revision = 3 /\ ParseB(idx)
    \/ \E idx \in Tasks : env.revision = 3 /\ Lock(idx)
    \/ \E idx \in Tasks : env.revision = 3 /\ WriteSheet(idx)
    \/ \E idx \in Tasks : env.revision = 2 /\ GenerateARev2(idx)
    \/ \E idx \in Tasks : env.revision = 2 /\ ParseBRev2(idx)
    \/ \E idx \in Tasks : env.revision = 2 /\ AppendRev2(idx)
    \/ \E idx \in Tasks : env.revision = 2 /\ LockRev2(idx)
    \/ \E idx \in Tasks : LoadDetails(idx)
    \/ \E idx \in Tasks : StoreDetails(idx)
    \/ \E idx \in Tasks : LoadCount(idx)
    \/ \E idx \in Tasks : StoreCount(idx)
    \/ \E idx \in Tasks : Return(idx)

SpecRevisions == InitRevisions /\ [][NextRevisions]_vars

\* ========================================================================
\* Properties
\* ========================================================================
\* positions of errs that carry the index of task i
EntriesOf(i, errs) == {k \in 1..Len(errs) : errs[k].idx = i}

\* the outcome of a finished task as its own upstream answers decide it
Fate(t) ==
    LET u == Unmarshal(cleanMarkdownJSON(t.parsedRawStr))
    IN  IF t.errA # "nil" THEN "Gen Fail"
        ELSE IF t.errB # "nil" THEN "Parse Fail"
        ELSE IF ~u.ok THEN "JSON Fail"
        ELSE IF mappedCount(u.dataMap, headers) = 0 THEN "Warning"
        ELSE IF ~t.wrote THEN "Write Fail"
        ELSE "ok"

\* tasks between the send on sem and the receive from it
Holders ==
    {i \in Tasks : task[i].pc \in {"genA", "genB", "lockErr", "lockWrite", "write",
                                   "errLoad", "errStore", "incLoad", "incStore", "return"}}

C2_SiblingIsolation ==
    respData.written =>
        \A i \in Tasks :
            /\ task[i].pc = "done"
            /\ task[i].callA.sent
            /\ (task[i].errA = "nil" => task[i].callB.sent)
            /\ (Fate(task[i]) \in {"Write Fail", "ok"} => task[i].appends = 1)
            /\ (Fate(task[i]) = "ok" <=> EntriesOf(i, respData.Errors) = {})
            /\ \A k \in EntriesOf(i, respData.Errors) :
                  respData.Errors[k].stage = Fate(task[i])

\* one task failed and a sibling succeeded
C2_Witness ==
    /\ respData.written
    /\ \E i, j \in Tasks : Fate(task[i]) # "ok" /\ Fate(task[j]) = "ok" /\ task[j].wrote

\* ---- C3 ----------------------------------------------------------------
\* C3: when the handler responds, success_count + len(errors) =
\* total_processed = N, and every task contributed exactly one of the two:
\* one increment of success_count or one error entry with its own index.
C3_CountsAddUp ==
    respData.written =>
        /\ respData.TotalProcessed = Len(r.body.SystemPromptFactory)
        /\ respData.SuccessCount + Len(respData.Errors) = respData.TotalProcessed
        /\ respData.SuccessCount = Cardinality({i \in Tasks : task[i].wrote})
        /\ \A i \in Tasks :
              Cardinality(EntriesOf(i, respData.Errors))
                  = IF task[i].wrote THEN 0 ELSE 1

\* a response with two successes and a failure
C3_Witness ==
    /\ respData.written
    /\ respData.SuccessCount >= 2
    /\ Len(respData.Errors) >= 1

\* ---- C4 ----------------------------------------------------------------
\* C4: a task whose stage-A call failed makes no stage-B call, appends
\* nothing to the sheet, and its only error entry is a "Gen Fail" one.
C4_GenFailureSkipsParse ==
    \A i \in Tasks :
        task[i].errA # "nil" =>
            /\ task[i].attemptsB = 0
            /\ ~task[i].callB.sent
            /\ task[i].appends = 0
            /\ ~task[i].wrote
            /\ Cardinality(EntriesOf(i, resultDetails)) <= 1
            /\ \A k \in EntriesOf(i, resultDetails) : resultDetails[k].stage = "Gen Fail"
            /\ (task[i].pc = "done" => Cardinality(EntriesOf(i, resultDetails)) = 1)

\* one task failed at stage A and another one at stage B
C4_Witness ==
    /\ respData.written
    /\ \E i, j \in Tasks :
          /\ task[i].errA # "nil"
          /\ task[j].errA = "nil" /\ task[j].errB # "nil"
          /\ \E k \in EntriesOf(i, respData.Errors) : respData.Errors[k].stage = "Gen Fail"

\* ---- C5 ----------------------------------------------------------------
\* C5: at most maxConcurrency = 5 tasks are between the send on sem and the
\* receive from it, sem counts exactly them, and while five are, a further
\* task cannot pass the send.
C5_AtMostFiveAdmitted ==
    /\ Cardinality(Holders) <= maxConcurrency
    /\ sem = Cardinality(Holders)
    /\ (Cardinality(Holders) = maxConcurrency =>
            \A i \in Tasks : task[i].pc = "sem" => ~ENABLED Acquire(i))

\* five tasks hold a slot and a sixth waits at the send
C5_Witness ==
    /\ Cardinality(Holders) = maxConcurrency
    /\ \E i \in Tasks : task[i].pc = "sem"

\* ---- C6 ----------------------------------------------------------------
\* C6: the response is written only when every launched task has finished:
\* all N goroutines were launched, each is done, the wait group is at 0 and
\* no slot is held.
C6_JoinBeforeResponse ==
    (respData.written \/ status = 200) =>
        /\ launched = Len(r.body.SystemPromptFactory)
        /\ \A i \in Tasks : task[i].pc = "done"
        /\ wg = 0
        /\ sem = 0
        /\ mu = Free

\* a response after a first task that failed and a later one that succeeded
C6_Witness ==
    /\ respData.written
    /\ Len(r.body.SystemPromptFactory) >= 2
    /\ Len(respData.Errors) >= 1
    /\ respData.Errors[1].idx = 0
    /\ respData.SuccessCount >= 1

\* ---- C7 ----------------------------------------------------------------
Repeat(x, n) == [k \in 1..n |-> x]

RECURSIVE SplitKeys(_, _)
SplitKeys(raw, cur) ==
    LET done == IF TrimSpace(cur) = <<>> THEN <<>> ELSE <<TrimSpace(cur)>>
    IN  IF raw = <<>> THEN done
        ELSE IF Head(raw) = ";" THEN done \o SplitKeys(Tail(raw), <<>>)
        ELSE SplitKeys(Tail(raw), Append(cur, Head(raw)))

\* the keys handed to callGemini so far, one per call made
KeysHanded ==
    {<<i, "A">> : i \in {j \in Tasks : task[j].callA.sent}}
    \cup {<<i, "B">> : i \in {j \in Tasks : task[j].callB.sent}}

KeyOf(c) == IF c[2] = "A" THEN task[c[1]].callA.key ELSE task[c[1]].callB.key

Scraped == scr.pc \in {"scraped", "done"} /\ ~scr.page.fails

NoPatternMatches ==
    Len(primaryMatch(scr.page.content)) < 2 /\ Len(fallbackMatch(scr.page.content)) < 2

\* C9: when the fetched page matches neither the primary nor the fallback
\* pattern, scrapeGoogleForm returns an error and the nil response (nothing
\* of a schema), and once ScrapperHandler has answered the status is 500 and
\* no schema was written.
C9_NoPatternIsAnErrorAndNil ==
    (Scraped /\ NoPatternMatches) =>
        /\ scr.ret.err # "nil"
        /\ scr.ret.data = NilScrape
        /\ scr.pc = "done" => (scr.status = 500 /\ scr.body = NilScrape)

C9_Witness ==
    /\ scr.pc = "done"
    /\ ~scr.page.fails
    /\ NoPatternMatches
    /\ \E k \in 1..Len(scr.page.content) : scr.page.content[k] = "VAR"
    /\ scr.status = 500

\* the question list of the page of a scrape that returned a schema
QuestionList == scr.page.data.a[2].a[2].a

\* the type code of an entry is the integer part of the number at index 3
\* (numbers are held as twice their value: 8 is 16 and 8.5 is 17)
IsType8(e) ==
    /\ e.t = "arr"
    /\ Len(e.a) >= 4
    /\ e.a[4].t = "num"
    /\ e.a[4].n \in 16..17

HasDetails(e) == Len(e.a) >= 5 /\ e.a[5].t = "arr" /\ Len(e.a[5].a) > 0

\* the decimal numbers of a comma-separated string, -1 for a part that is
\* not a decimal number
DigitValue(c) ==
    CASE c = "0" -> 0 [] c = "1" -> 1 [] c = "2" -> 2 [] c = "3" -> 3 [] c = "4" -> 4
      [] c = "5" -> 5 [] c = "6" -> 6 [] c = "7" -> 7 [] c = "8" -> 8 [] c = "9" -> 9
      [] OTHER -> -1

RECURSIVE Atoi(_, _)
Atoi(acc, digits) ==
    IF digits = <<>> THEN acc
    ELSE IF DigitValue(Head(digits)) < 0 THEN -1
    ELSE Atoi(10 * acc + DigitValue(Head(digits)), Tail(digits))

RECURSIVE SplitCommas(_, _)
SplitCommas(cur, rest) ==
    IF rest = <<>> THEN <<cur>>
    ELSE IF Head(rest) = "," THEN <<cur>> \o SplitCommas(<<>>, Tail(rest))
    ELSE SplitCommas(Append(cur, Head(rest)), Tail(rest))

HistoryNumbers(str) ==
    LET parts == SplitCommas(<<>>, str)
    IN  [k \in 1..Len(parts) |-> IF parts[k] = <<>> THEN -1 ELSE Atoi(0, parts[k])]

\* C10: in every schema scrapeGoogleForm returns, the page history reads
\* 0,1,...,pageCount where pageCount is the number of entries of the question
\* list whose type code is 8, and the questions, entry ids and label mappings
\* are those of the same list without its type-8 entries: a type-8 entry
\* yields none of them, with or without input details.
C10_PageBreaksCountAndYieldNothing ==
    (Scraped /\ scr.ret.err = "nil") =>
        LET qs == QuestionList
            pageCount == Cardinality({k \in 1..Len(qs) : IsType8(qs[k])})
            others == walkQuestions(EmptyWalk, SelectSeq(qs, LAMBDA e : ~IsType8(e)))
            saves == scr.ret.data.Saves
        IN  /\ HistoryNumbers(saves.PageHistory) = [k \in 1..(pageCount + 1) |-> k - 1]
            /\ scr.ret.data.Questions = others.questions
            /\ saves.EntryIDs = others.entryIDs
            /\ saves.EntryMappings = others.entryMappings
            /\ Len(scr.ret.data.Questions) <= Len(qs) - pageCount

C10_Witness ==
    /\ Scraped
    /\ scr.ret.err = "nil"
    /\ \E k \in 1..Len(QuestionList) : IsType8(QuestionList[k]) /\ HasDetails(QuestionList[k])
    /\ Cardinality({k \in 1..Len(QuestionList) : IsType8(QuestionList[k])}) = 1
    /\ Len(scr.ret.data.Questions) = 1
    /\ scr.ret.data.Saves.PageHistory = <<"0", ",", "1">>

\* a schema was returned
SchemaReturned == Scraped /\ scr.ret.err = "nil"

\* m[k] of a map held as a set of <<text, id>>: the id, and whether k is present
MapHas(m, k) == \E e \in m : e[1] = k
MapGet(m, k) == IF MapHas(m, k) THEN (CHOOSE e \in m : e[1] = k)[2] ELSE 0

\* C11 as stated: every question with a non-empty label is mapped by its
\* label to its own ID.
C11_Original_EveryLabelMapsToOwnID ==
    SchemaReturned =>
        LET qs == scr.ret.data.Questions
            m == scr.ret.data.Saves.EntryMappings
        IN  \A k \in 1..Len(qs) :
               qs[k].Text # "" => (MapHas(m, qs[k].Text) /\ MapGet(m, qs[k].Text) = qs[k].ID)

\* C11: every non-empty label of a returned question is a key of the map,
\* and it is mapped to the ID of the last question that carries that label;
\* so the lookup gives back a question's own ID when no later question
\* repeats its label.
C11_LabelMapsToLastBearer ==
    SchemaReturned =>
        LET qs == scr.ret.data.Questions
            m == scr.ret.data.Saves.EntryMappings
        IN  \A k \in 1..Len(qs) :
               qs[k].Text # "" =>
                  /\ MapHas(m, qs[k].Text)
                  /\ (\A j \in (k + 1)..Len(qs) : qs[j].Text # qs[k].Text)
                        => MapGet(m, qs[k].Text) = qs[k].ID

C11_Witness ==
    /\ SchemaReturned
    /\ Len(scr.ret.data.Questions) = 2
    /\ scr.ret.data.Questions[1].Text = "A"
    /\ scr.ret.data.Questions[2].Text = "A"
    /\ scr.ret.data.Questions[1].ID # scr.ret.data.Questions[2].ID
    /\ MapGet(scr.ret.data.Saves.EntryMappings, "A") = scr.ret.data.Questions[2].ID

\* ------------------------------------------------------------------------
\* DataFactFactoryHandler: request checks and the batch answer
\* ------------------------------------------------------------------------
Authorized == mustAuthorize(r.auth, env.secret) = "nil"

MissingFields == r.body.SpreadsheetID = <<>> \/ r.body.GeminiAPIKey = <<>>

\* nothing was started for the request: no goroutine, no call of the
\* generation endpoint, no call to Google Sheets, no row
NothingStarted ==
    /\ launched = 0
    /\ wg = 0
    /\ \A i \in Tasks : task[i] = IdleTask
    /\ upstream = <<>>
    /\ sheet = <<>>

\* C12: once the handler has answered, a request whose authorization fails
\* was answered 401, an authorized request that is not a POST 405, and an
\* authorized POST whose spreadsheet_id or gemini_api_key is missing 400; in
\* each case no task was launched and no upstream call was made, then or
\* at any time before.
C12_RejectedBeforeAnyWork ==
    /\ (~Authorized \/ r.method # "POST" \/ (r.bodyOK /\ MissingFields)) => NothingStarted
    /\ hpc = "responded" =>
          /\ ~Authorized => status = 401
          /\ (Authorized /\ r.method # "POST") => status = 405
          /\ (Authorized /\ r.method = "POST" /\ r.bodyOK /\ MissingFields) => status = 400

C12_Witness ==
    /\ hpc = "responded"
    /\ Authorized
    /\ r.method = "POST"
    /\ r.bodyOK
    /\ r.body.GeminiAPIKey = <<>>
    /\ r.body.SpreadsheetID # <<>>
    /\ totalTasks > 0
    /\ status = 400
    /\ NothingStarted

\* the request passed the checks and the header row was read: the fan-out
\* has started
FanOutStarted == headers # <<>>

\* C13: once the fan-out has started no status is written until the handler
\* answers, and the answer is 200 with total_processed = N, success_count
\* and the error list as the tasks left them, whatever number of tasks
\* failed; before the fan-out the status is that of a request-level failure.
C13_BatchResultIsAlways200 ==
    /\ (FanOutStarted /\ hpc = "loop") => (status = 0 /\ ~respData.written)
    /\ (FanOutStarted /\ hpc = "responded") =>
          /\ status = 200
          /\ respData = [written |-> TRUE, TotalProcessed |-> totalTasks,
                         SuccessCount |-> successCount, Errors |-> resultDetails]
          /\ Len(resultDetails) <= totalTasks
    /\ (~FanOutStarted /\ hpc = "responded") =>
          (status \in {400, 401, 405, 500} /\ ~respData.written)

C13_Witness ==
    /\ hpc = "responded"
    /\ FanOutStarted
    /\ totalTasks >= 2
    /\ status = 200
    /\ respData.SuccessCount = 0
    /\ Len(respData.Errors) = totalTasks
    /\ \E i, j \in Tasks : task[i].errA # "nil" /\ task[j].errA = "nil"

\* ------------------------------------------------------------------------
\* callGemini: statuses, empty answers, the text returned
\* ------------------------------------------------------------------------
FirstReply == gem.script[1]

\* C14: when the first answer is a non-200 status that is neither 429 nor
\* 5xx, the call fails with the status error after exactly one attempt,
\* whatever the upstream would answer to further attempts.
C14_TerminalStatusFailsAfterOneAttempt ==
    (/\ gem.pc = "returned"
     /\ FirstReply.transport
     /\ FirstReply.status \notin {200, 429}
     /\ FirstReply.status < 500) =>
        /\ gem.result.err = "status"
        /\ gem.result.status = FirstReply.status
        /\ gem.result.text = <<>>
        /\ gem.result.attempts = 1

C14_Witness ==
    /\ gem.pc = "returned"
    /\ gem.script = <<Reply404, ReplyText(DraftText)>>
    /\ gem.result.err = "status"
    /\ gem.result.status = 404
    /\ gem.result.attempts = 1

\* a decoded 200 without a candidate, or whose first candidate has no part
EmptyAnswer(rp) ==
    /\ rp.transport
    /\ rp.status = 200
    /\ rp.json
    /\ ~(Len(rp.candidates) > 0 /\ Len(rp.candidates[1]) > 0)

RECURSIVE AllTexts(_)
AllTexts(candidates) ==
    IF candidates = <<>> THEN <<>>
    ELSE Head(candidates) \o AllTexts(Tail(candidates))

NonEmptyTexts(rp) == SelectSeq(AllTexts(rp.candidates), LAMBDA t : t # <<>>)

\* C16 as stated: on a decoded 200 whose candidates hold a non-empty text,
\* the call succeeds and returns the first non-empty text in candidate/part
\* order.
C16_Original_FirstNonEmptyText ==
    (/\ gem.pc = "returned"
     /\ FirstReply.transport /\ FirstReply.status = 200 /\ FirstReply.json
     /\ NonEmptyTexts(FirstReply) # <<>>) =>
        /\ gem.result.err = "nil"
        /\ gem.result.text # <<>>
        /\ gem.result.text = NonEmptyTexts(FirstReply)[1]

\* ------------------------------------------------------------------------
\* gemini_api_key: what is checked and what is handed on
\* ------------------------------------------------------------------------
PassesOtherChecks ==
    Authorized /\ r.method = "POST" /\ r.bodyOK /\ r.body.SpreadsheetID # <<>>

C18_Original_EntryIdsPairwiseDistinct ==
    SchemaReturned =>
        LET qs == scr.ret.data.Questions
            ids == scr.ret.data.Saves.EntryIDs
        IN  /\ \A i, j \in 1..Len(qs) : i # j => qs[i].ID # qs[j].ID
            /\ \A i, j \in 1..Len(ids) : i # j => ids[i] # ids[j]

\* the ID of the last question that carries the label
LastBearerID(qs, label) ==
    qs[MaxOf({k \in 1..Len(qs) : qs[k].Text = label})].ID

\* C19: the keys of the label map are exactly the non-empty labels of the
\* questions returned, each key has one entry, and it is the ID of the last
\* question in input order that carries the label; the empty label is not a
\* key.
C19_LabelMapLaterWins ==
    SchemaReturned =>
        LET qs == scr.ret.data.Questions
            m == scr.ret.data.Saves.EntryMappings
            labels == {qs[k].Text : k \in 1..Len(qs)} \ {""}
        IN  /\ {e[1] : e \in m} = labels
            /\ Cardinality(m) = Cardinality(labels)
            /\ \A e \in m : e[2] = LastBearerID(qs, e[1])

\* two questions share a label and the later has the smaller id
C19_Witness ==
    /\ SchemaReturned
    /\ Len(scr.ret.data.Questions) = 2
    /\ scr.ret.data.Questions[1].Text = scr.ret.data.Questions[2].Text
    /\ scr.ret.data.Questions[1].ID > scr.ret.data.Questions[2].ID
    /\ scr.ret.data.Saves.EntryMappings
          = {<<scr.ret.data.Questions[2].Text, scr.ret.data.Questions[2].ID>>}

\* twice the number a decimal text denotes, for texts with at most the
\* fraction ".5"; -1 for any other text
DecimalTwice(str) ==
    LET neg == str # <<>> /\ Head(str) = "-"
        body == IF neg THEN Tail(str) ELSE str
        dots == {k \in 1..Len(body) : body[k] = "."}
        whole == IF dots = {} THEN body ELSE SubSeq(body, 1, MinOf(dots) - 1)
        frac == IF dots = {} THEN <<>> ELSE SubSeq(body, MinOf(dots) + 1, Len(body))
        half == IF frac = <<>> THEN 0 ELSE 1
        ok == whole # <<>> /\ Atoi(0, whole) >= 0 /\ frac \in {<<>>, <<"5">>}
    IN  IF ~ok THEN -1
        ELSE IF neg THEN -(2 * Atoi(0, whole) + half)
        ELSE 2 * Atoi(0, whole) + half

HtmlHasFbzx == \E k \in 1..Len(scr.page.content) : scr.page.content[k] = "FBZX"

\* C20: in every schema returned the session token is the value of the fbzx
\* attribute of the HTML when the page has one; when it has none the token
\* is index 14 of the top-level array: a string as it is, a number as the
\* decimal text that reads back as that number; and it is empty when the
\* array is shorter or holds something else there.
C20_SessionTokenSources ==
    SchemaReturned =>
        LET fbzx == scr.ret.data.Saves.Fbzx
            top == scr.page.data.a
        IN  /\ HtmlHasFbzx => fbzx = <<"tokhtml">>
            /\ (~HtmlHasFbzx /\ Len(top) >= 15 /\ top[15].t = "str") =>
                  fbzx = (IF top[15].s = "" THEN <<>> ELSE <<top[15].s>>)
            /\ (~HtmlHasFbzx /\ Len(top) >= 15 /\ top[15].t = "num") =>
                  (fbzx # <<>> /\ DecimalTwice(fbzx) = top[15].n)
            /\ (~HtmlHasFbzx /\ (Len(top) < 15 \/ top[15].t \notin {"str", "num"})) =>
                  fbzx = <<>>

\* the page has the attribute and the array a token at index 14 as well
C20_Witness ==
    /\ SchemaReturned
    /\ HtmlHasFbzx
    /\ Len(scr.page.data.a) >= 15
    /\ scr.page.data.a[15] = JStr("tok14")
    /\ scr.ret.data.Saves.Fbzx = <<"tokhtml">>

\* ------------------------------------------------------------------------
\* DataFactFactoryHandler: the prompt fields
\* ------------------------------------------------------------------------
\* the personas are missing, or one of the four prompt fields is empty
PromptsMissing ==
    \/ r.body.SystemPromptFactory = <<>>
    \/ \E k \in 1..Len(r.body.SystemPromptFactory) : r.body.SystemPromptFactory[k] = <<>>
    \/ r.body.UserPromptFactory = <<>>
    \/ r.body.SystemPromptParser = <<>>
    \/ r.body.UserPromptParser = <<>>

\* C21 as stated: a request without personas or with an empty prompt field
\* is answered 400, and nothing is started for it and no upstream call made.
C21_Original_EmptyPromptsRejected ==
    (PassesOtherChecks /\ r.body.GeminiAPIKey # <<>> /\ PromptsMissing) =>
        /\ NothingStarted
        /\ hpc = "responded" => status = 400

\* the concatenation of a sequence of texts
RECURSIVE Flatten(_)
Flatten(texts) == IF texts = <<>> THEN <<>> ELSE Head(texts) \o Flatten(Tail(texts))

\* a template with every token equal to the placeholder replaced by a text
Substituted(template, placeholder, text) ==
    Flatten([k \in 1..Len(template) |->
                IF template[k] = placeholder THEN text ELSE <<template[k]>>])

\* C22: the stage-A call of every task carries as user text the user-prompt
\* template with every occurrence of the form placeholder replaced by the
\* form text (no placeholder is left) when a form text is given, and the
\* template itself when it is not; as system text it carries the persona at
\* the task's own index, never that of another task.
C22_StageAPromptAndPersona ==
    \A i \in Tasks :
        task[i].callA.sent =>
            LET persona == r.body.SystemPromptFactory[i + 1]
            IN  /\ r.body.FormText # <<>> =>
                      /\ task[i].callA.contents
                            = Substituted(r.body.UserPromptFactory, FormPlaceholder, r.body.FormText)
                      /\ ~Contains(task[i].callA.contents, FormPlaceholder)
                /\ r.body.FormText = <<>> =>
                      task[i].callA.contents = r.body.UserPromptFactory
                /\ persona # <<>> => task[i].callA.system_instruction = <<persona>>
                /\ \A j \in Tasks :
                      (j # i /\ task[i].callA.system_instruction # <<>>) =>
                          task[i].callA.system_instruction[1] # r.body.SystemPromptFactory[j + 1]

\* the template held the placeholder twice and both were replaced
C22_Witness ==
    /\ r.body.UserPromptFactory = <<FormPlaceholder, "and", FormPlaceholder>>
    /\ \E i \in Tasks :
          /\ task[i].callA.sent
          /\ task[i].callA.contents = <<"form", "and", "form">>
          /\ task[i].callA.system_instruction = <<r.body.SystemPromptFactory[i + 1]>>

\* C23 as stated: the user text of the stage-B call is the trimmed stage-A
\* output, a newline, and the trimmed parser template.
C23_Original_TrimmedNewlineJoin ==
    \A i \in Tasks :
        task[i].callB.sent =>
            task[i].callB.contents
                = TrimSpace(task[i].genResult) \o <<"\n">> \o TrimSpace(r.body.UserPromptParser)

\* C23 (amended): when the parser template holds the placeholder
\* {{ $json.choices[0].message.content }}, the user text of the stage-B call
\* is the template with every occurrence replaced by the stage-A output;
\* otherwise it is the template, the separator "\n\nInput Text:\n" and the
\* stage-A output, in that order.  Neither the template nor the output is
\* trimmed.  The system text is the parser system prompt.
C23_StageBPrompt ==
    \A i \in Tasks :
        task[i].callB.sent =>
            /\ Contains(r.body.UserPromptParser, N8nPlaceholder) =>
                  task[i].callB.contents
                      = Substituted(r.body.UserPromptParser, N8nPlaceholder, task[i].genResult)
            /\ ~Contains(r.body.UserPromptParser, N8nPlaceholder) =>
                  /\ Len(task[i].callB.contents)
                        = Len(r.body.UserPromptParser) + 1 + Len(task[i].genResult)
                  /\ SubSeq(task[i].callB.contents, 1, Len(r.body.UserPromptParser))
                        = r.body.UserPromptParser
                  /\ task[i].callB.contents[Len(r.body.UserPromptParser) + 1]
                        = "\n\nInput Text:\n"
                  /\ SubSeq(task[i].callB.contents, Len(r.body.UserPromptParser) + 2,
                            Len(task[i].callB.contents)) = task[i].genResult
            /\ r.body.SystemPromptParser # <<>> =>
                  task[i].callB.system_instruction = <<r.body.SystemPromptParser>>

\* a padded stage-A output was put in place of both placeholders
C23_Witness ==
    /\ r.body.UserPromptParser = <<N8nPlaceholder, "extract", N8nPlaceholder>>
    /\ \E i \in Tasks :
          /\ task[i].callB.sent
          /\ task[i].genResult = PaddedDraftText
          /\ task[i].callB.contents = PaddedDraftText \o <<"extract">> \o PaddedDraftText

\* ---- C24 ---------------------------------------------------------------
\* the tasks between mu.Lock() and mu.Unlock()
InCriticalSection ==
    {i \in DOMAIN task :
        task[i].pc \in {"write", "errLoad", "errStore", "incLoad", "incStore"}}

CriticalSectionExclusive ==
    /\ Cardinality(InCriticalSection) <= 1
    /\ \A i \in InCriticalSection : mu = i
    /\ (mu # Free => InCriticalSection = {mu})

\* a step that changes the success counter or the error list is the store
\* of the task that holds the mutex, and it writes what that task read
\* extended by one
SharedWriteUnderMutex ==
    (successCount' # successCount \/ resultDetails' # resultDetails) =>
        /\ mu \in DOMAIN task
        /\ InCriticalSection = {mu}
        /\ \/ /\ task[mu].pc = "incStore"
              /\ task[mu].tmpCount = successCount
              /\ successCount' = successCount + 1
              /\ resultDetails' = resultDetails
           \/ /\ task[mu].pc = "errStore"
              /\ task[mu].tmpDetails = resultDetails
              /\ Len(resultDetails') = Len(resultDetails) + 1
              /\ SubSeq(resultDetails', 1, Len(resultDetails)) = resultDetails
              /\ successCount' = successCount

\* C24: every read-modify-write of the success counter and every append to
\* the error list happens while the one mutex is held by the task doing it,
\* and at most one task is in the critical section at any time.
C24_SharedStateUnderMutex ==
    []CriticalSectionExclusive /\ [][SharedWriteUnderMutex]_vars

\* a task has read the counter inside the critical section while another
\* task, itself with an error to record, waits for the mutex
C24_Witness ==
    \E i, j \in DOMAIN task :
        /\ i # j
        /\ task[i].pc = "incStore"
        /\ mu = i
        /\ task[j].pc = "lockErr"
        /\ successCount >= 1

\* ---- C25 ---------------------------------------------------------------
\* the tasks launched and not yet finished
Unfinished == {i \in DOMAIN task : task[i].pc \notin {"idle", "done"}}

\* task i stands at a blocking operation that cannot proceed: the send on
\* the full semaphore, or Lock on the held mutex
Blocked(i) ==
    \/ task[i].pc = "sem" /\ ~SemHasRoom
    \/ task[i].pc \in {"lockErr", "lockWrite"} /\ ~MutexFree

\* the handler goroutine can take a step: it is before its checks, has a
\* goroutine to launch, or stands at a Wait that returns
HandlerCanStep ==
    \/ hpc = "entry"
    \/ hpc = "loop" /\ (launched < totalTasks \/ WaitReturns)

NoDeadlock ==
    /\ hpc # "responded" => (HandlerCanStep \/ \E i \in Unfinished : ~Blocked(i))
    /\ Unfinished # {} => \E i \in Unfinished : ~Blocked(i)
    /\ \A i \in DOMAIN task : task[i].pc = "sem" => mu # i
    /\ (hpc = "responded" /\ headers # <<>>) =>
            \A i \in DOMAIN task : task[i].pc = "done"

\* the number of steps a goroutine at this position is still to take
StepsLeft ==
    [idle |-> 10, sem |-> 9, genA |-> 8, genB |-> 7, lockWrite |-> 6, write |-> 5,
     lockErr |-> 4, errLoad |-> 3, incLoad |-> 3, errStore |-> 2, incStore |-> 2,
     return |-> 1, done |-> 0]

HandlerStepsLeft == [entry |-> 2, loop |-> 1, responded |-> 0]

\* a step is one step of the handler goroutine or of one task, and takes
\* it nearer to its end: the steps left to handler and tasks together
\* strictly decrease
StepDecreasesMeasure ==
    \/ /\ HandlerStepsLeft[hpc'] < HandlerStepsLeft[hpc]
       /\ task' = task
    \/ /\ hpc' = hpc
       /\ \E i \in DOMAIN task :
            /\ StepsLeft[task'[i].pc] < StepsLeft[task[i].pc]
            /\ \A j \in DOMAIN task \ {i} : task'[j].pc = task[j].pc

\* the steps the handler goroutine and its tasks are still to take, at most
Measure ==
    HandlerStepsLeft[hpc] + SeqSum([k \in 1..totalTasks |-> StepsLeft[task[k - 1].pc]])

\* C25: the fan-out cannot deadlock and terminates, also for more tasks
\* than slots: in every reachable state before the response some goroutine
\* can step, among the unfinished tasks one is not blocked, no task waits
\* for a slot while holding the mutex, every step strictly decreases the
\* natural-number measure of the steps left (so that every fair run, where
\* every upstream call returns, ends), and a run can only end with the
\* response written after every task has finished.
C25_DeadlockFreeAndTerminating ==
    []NoDeadlock /\ [][StepDecreasesMeasure]_vars

\* more tasks than slots: the response is written after a task that had
\* to wait for a slot went through the critical section behind five others
C25_Witness ==
    /\ totalTasks > maxConcurrency
    /\ hpc = "responded"
    /\ respData.written
    /\ respData.SuccessCount + Len(respData.Errors) = totalTasks
    /\ Measure = 0

\* ---- C26 ---------------------------------------------------------------
\* the tasks whose append request is in flight: the request is made and
\* its outcome not yet taken
AppendsInFlight == {i \in DOMAIN task : task[i].pc \in {"write", "append"}}

\* C26: in the latest revision at most one append is in flight at any
\* time, and the task making it holds the mutex from before the request
\* until its outcome is recorded in the counter or in the error list; in the
\* second revision the appends in flight are bounded by the five slots
\* only, the mutex being taken after the request has returned.
C26_AppendsSerializedInLatestOnly ==
    /\ env.revision = 3 =>
          /\ Cardinality(AppendsInFlight) <= 1
          /\ \A i \in AppendsInFlight : mu = i
          /\ \A i \in DOMAIN task :
                (task[i].appends > 0
                    /\ task[i].pc \in {"incLoad", "incStore", "errLoad", "errStore"})
                  => mu = i
    /\ env.revision = 2 =>
          /\ Cardinality(AppendsInFlight) <= maxConcurrency
          /\ \A i \in AppendsInFlight : mu # i

\* the second revision with five appends in flight at once while a sixth
\* task waits for a slot
C26_Witness ==
    /\ env.revision = 2
    /\ Cardinality(AppendsInFlight) = maxConcurrency
    /\ \E i \in DOMAIN task : task[i].pc = "sem"

\* the latest revision with a task at its append while another, its row
\* ready, waits for the mutex, and a third has its row in the sheet
C26_LatestReached ==
    /\ env.revision = 3
    /\ \E i, j \in DOMAIN task :
          /\ task[i].pc = "write"
          /\ task[j].pc = "lockWrite"
          /\ Len(sheet) >= 1

\* ---- C27 ---------------------------------------------------------------
\* a row of the sheet whose cells are all the empty string
AllEmptyRow(row) == \A c \in 1..Len(row) : row[c] = <<>>

\* C27 as stated: a task whose decoded JSON has no key matching a header
\* makes no append, has exactly one error entry and is not counted; and no
\* row of the sheet is all-empty.
C27_Original_NoAllEmptyRow ==
    /\ \A i \in DOMAIN task :
          (task[i].pc = "done" /\ Fate(task[i]) = "Warning") =>
              /\ task[i].appends = 0
              /\ ~task[i].wrote
              /\ Cardinality(EntriesOf(i, resultDetails)) = 1
    /\ respData.written =>
          respData.SuccessCount
              = Cardinality({i \in DOMAIN task : Fate(task[i]) = "ok"})
    /\ \A k \in 1..Len(sheet) : ~AllEmptyRow(sheet[k])

\* ---- C28 ---------------------------------------------------------------
\* task t has reached the append: it stands at the request or has made it
AtOrPastAppend(t) == t.pc = "write" \/ t.appends > 0

\* C28: a task reaches the append only with its stage-A call, its stage-B
\* call and the JSON decode of the stage-B output all succeeded; no task
\* makes more than one append; the rows of the sheet are those of the
\* appends that returned without error; and the success_count of the
\* response is the number of those appends.
C28_AppendAfterAllStagesAndAtMostOnce ==
    /\ \A i \in DOMAIN task :
          /\ task[i].appends <= 1
          /\ (task[i].wrote => task[i].appends = 1)
          /\ AtOrPastAppend(task[i]) =>
                /\ task[i].callA.sent /\ task[i].errA = "nil"
                /\ task[i].callB.sent /\ task[i].errB = "nil"
                /\ Unmarshal(cleanMarkdownJSON(task[i].parsedRawStr)).ok
    /\ Len(sheet) = Cardinality({i \in DOMAIN task : task[i].wrote})
    /\ respData.written =>
          /\ respData.SuccessCount = Len(sheet)
          /\ respData.SuccessCount
                = Cardinality({i \in DOMAIN task : task[i].appends = 1 /\ task[i].wrote})

\* a response for three tasks: one never reached the append, one made an
\* append that failed, one made an append that succeeded
C28_Witness ==
    /\ respData.written
    /\ respData.SuccessCount = 1
    /\ \E i, j, k \in DOMAIN task :
          /\ task[i].appends = 0
          /\ task[j].appends = 1 /\ ~task[j].wrote
          /\ task[k].appends = 1 /\ task[k].wrote

\* ---- C29 ---------------------------------------------------------------
\* the goroutines launched and not yet returned
Running == {i \in DOMAIN task : task[i].pc \notin {"idle", "done"}}

SlotsAndSignalsBalanced ==
    /\ sem = Cardinality(Holders)
    /\ wg = Cardinality(Running)
    /\ (hpc = "responded" /\ headers # <<>>) =>
          /\ sem = 0
          /\ wg = 0
          /\ \A i \in DOMAIN task : task[i].pc = "done"

\* a step releases a slot exactly when one task returns, that task held a
\* slot and signals the wait group in the same step; a task leaves the
\* holders of a slot by no other step, and a returned task never steps again
ReleaseOnceOnReturn ==
    LET returning == {i \in DOMAIN task : task[i].pc # "done" /\ task'[i].pc = "done"}
    IN  /\ \A i \in returning : task[i].pc = "return" /\ i \in Holders
        /\ Cardinality(returning) <= 1
        /\ IF returning = {}
           THEN sem' >= sem /\ wg' >= wg
           ELSE sem' = sem - 1 /\ wg' = wg - 1
        /\ \A i \in DOMAIN task :
              /\ (i \in Holders /\ task'[i].pc \notin
                      {"genA", "genB", "lockErr", "lockWrite", "write", "errLoad",
                       "errStore", "incLoad", "incStore", "return"})
                    => i \in returning
              /\ task[i].pc = "done" => task'[i] = task[i]

\* C29: every task that has acquired a slot gives it back exactly once, by
\* the deferred receive that runs at its return, whatever the path it
\* returns by, and signals the wait group exactly once in the same return;
\* the slots held are those of the tasks between acquire and return, and
\* after the join none is held.
C29_SlotReleasedExactlyOnce ==
    []SlotsAndSignalsBalanced /\ [][ReleaseOnceOnReturn]_vars

\* a response after three tasks that returned by three different paths:
\* no column mapped, write failure, success
C29_Witness ==
    /\ respData.written
    /\ sem = 0
    /\ {Fate(task[i]) : i \in DOMAIN task} = {"Warning", "Write Fail", "ok"}

\* ---- C30 ---------------------------------------------------------------
\* the rows between the send on semaphore and the receive from it
InFlight == {i \in DOMAIN inj.row : inj.row[i] \in {"post", "critOk", "critFail"}}

\* C30: in the fan-out of InjectorHandler at most 10 rows are between the
\* acquire and the release of a slot at any time, for every number of rows,
\* the semaphore counting exactly those rows; and the response is written
\* only when every row has been launched and processed.
C30_AtMostTenInFlightAndJoin ==
    /\ Cardinality(InFlight) <= injectorConcurrency
    /\ inj.semaphore = Cardinality(InFlight)
    /\ (inj.result.written \/ inj.status = 200) =>
          /\ inj.launched = Len(inj.finalRows)
          /\ \A i \in DOMAIN inj.row : inj.row[i] = "done"
          /\ inj.wg = 0
          /\ inj.semaphore = 0
          /\ inj.result.Total = Len(inj.finalRows)
          /\ inj.result.Success + inj.result.Failed = inj.result.Total
          /\ Len(inj.result.Details) = inj.result.Failed

\* eleven rows: ten submissions in flight and the eleventh goroutine
\* waiting for a slot while the handler waits for the join
C30_Witness ==
    /\ Len(inj.finalRows) > injectorConcurrency
    /\ Cardinality(InFlight) = injectorConcurrency
    /\ \E i \in DOMAIN inj.row : inj.row[i] = "sem"
    /\ inj.launched = Len(inj.finalRows)
    /\ ~inj.result.written

\* the response for eleven rows, one of them failed
C30_RespondedForEleven ==
    /\ inj.result.written
    /\ inj.result.Total = InjectRows
    /\ inj.result.Failed = 1

\* ---- C31 ---------------------------------------------------------------
\* C31: in the response after the fan-out Total = Success + Failed, Details
\* has Failed entries, and they are the failed rows, each tagged once with
\* its own index; before the response the counters and the channel agree
\* with the rows that have returned.
C31_InjectCountsAndDetails ==
    /\ inj.failCount = Len(inj.resultChan)
    /\ inj.successCount + inj.failCount
          = Cardinality({i \in DOMAIN inj.row : inj.row[i] = "done"})
    /\ \A i \in DOMAIN inj.row :
          Cardinality({k \in 1..Len(inj.resultChan) : inj.resultChan[k] = i}) <= 1
    /\ \A k \in 1..Len(inj.resultChan) :
          /\ inj.resultChan[k] \in inj.req.failing
          /\ inj.row[inj.resultChan[k]] = "done"
    /\ inj.result.written =>
          /\ inj.result.Total = Len(inj.finalRows)
          /\ inj.result.Total = inj.result.Success + inj.result.Failed
          /\ Len(inj.result.Details) = inj.result.Failed
          /\ inj.result.Details = inj.resultChan
          /\ inj.result.Success
                = Cardinality({i \in DOMAIN inj.row :
                      \A k \in 1..Len(inj.resultChan) : inj.resultChan[k] # i})

\* a response for three rows of which the last and then the first failed
C31_Witness ==
    /\ inj.result.written
    /\ inj.result.Total = 3
    /\ inj.result.Success = 1
    /\ inj.result.Details = <<2, 0>>

\* ---- C32 ---------------------------------------------------------------
\* the goroutine of row i stands at a blocking operation that cannot
\* proceed: the send on the full semaphore, Lock on the held mutex, or the
\* send on a result channel without room
InjectBlocked(i) ==
    \/ inj.row[i] = "sem" /\ ~InjectSemHasRoom
    \/ inj.row[i] = "post" /\ ~InjectMutexFree
    \/ inj.row[i] = "critFail" /\ ~ResultChanHasRoom

InjectUnfinished == {i \in DOMAIN inj.row : inj.row[i] \notin {"idle", "done"}}

InjectHandlerCanStep ==
    \/ inj.pc = "entry"
    \/ inj.pc = "loop" /\ (inj.launched < Len(inj.finalRows) \/ InjectWaitReturns)

InjectNoDeadlock ==
    /\ \A i \in DOMAIN inj.row :
          /\ inj.row[i] \in {"critOk", "critFail"} <=> inj.mu = i
          /\ inj.row[i] = "critFail" => ResultChanHasRoom
    /\ inj.pc = "loop" => inj.resultCap = Len(inj.finalRows)
    /\ Len(inj.resultChan) <= Cardinality({i \in DOMAIN inj.row : inj.row[i] = "done"})
    /\ inj.pc # "responded" =>
          (InjectHandlerCanStep \/ \E i \in InjectUnfinished : ~InjectBlocked(i))
    /\ InjectUnfinished # {} => \E i \in InjectUnfinished : ~InjectBlocked(i)
    /\ inj.result.written => \A i \in DOMAIN inj.row : inj.row[i] = "done"

InjectStepsLeft == [idle |-> 4, sem |-> 3, post |-> 2, critOk |-> 1, critFail |-> 1, done |-> 0]

\* a step is one step of the handler goroutine or of one row, and takes it
\* nearer to its end
InjectStepDecreases ==
    \/ /\ HandlerStepsLeft[inj'.pc] < HandlerStepsLeft[inj.pc]
       /\ inj.pc = "entry" \/ inj'.row = inj.row
    \/ /\ inj'.pc = inj.pc
       /\ \E i \in DOMAIN inj.row :
            /\ InjectStepsLeft[inj'.row[i]] < InjectStepsLeft[inj.row[i]]
            /\ inj'.row = [inj.row EXCEPT ![i] = inj'.row[i]]

\* C32: the send on the result channel, made holding the mutex, always
\* finds room, the channel having the capacity of the number of rows and
\* taking at most one message per row; so no reachable state of the fan-out
\* is stuck before the response, among the unfinished rows one can always
\* step, every step takes the handler or a row nearer to its end, and the
\* response is written with every row returned, also when all rows fail.
C32_ResultChannelNeverBlocks ==
    []InjectNoDeadlock /\ [][InjectStepDecreases]_vars

\* every row failed: the response is written with the channel filled to
\* its capacity
C32_Witness ==
    /\ inj.result.written
    /\ Len(inj.finalRows) = 3
    /\ inj.result.Failed = Len(inj.finalRows)
    /\ Len(inj.resultChan) = inj.resultCap

\* the IDs of the save state of the request
SaveStateIDs ==
    Range(inj.req.saves.EntryIDs) \cup {m[2] : m \in inj.req.saves.EntryMappings}

\* an entry <<id, val>> of a row comes from an element of rawAnswers: from
\* a position of an array within EntryIDs, under the ID of that position;
\* or from a key of an object other than an email key, under the ID of the
\* label when the key is a label, and under the number the key reads as
\* only when it is no label and the number is among EntryIDs
EntryFromItem(entry, item) ==
    LET saves == inj.req.saves
    IN  \/ /\ item.kind = "array"
           /\ \E i \in 1..Len(item.arr) :
                 /\ i <= Len(saves.EntryIDs)
                 /\ entry = <<saves.EntryIDs[i], item.arr[i]>>
        \/ /\ item.kind = "object"
           /\ \E kv \in item.obj :
                 /\ LowerTok(kv[1]) \notin {"email", "email address"}
                 /\ entry[2] = kv[2]
                 /\ IF \E m \in saves.EntryMappings : m[1] = kv[1]
                    THEN <<kv[1], entry[1]>> \in saves.EntryMappings
                    ELSE /\ ParseInt(kv[1]).ok
                         /\ ParseInt(kv[1]).n = entry[1]
                         /\ entry[1] \in Range(saves.EntryIDs)

\* C33: every entry ID of a submission comes from the save state, every
\* entry of a submission is an entry of its row, and every entry of a row
\* comes from an answer by position within EntryIDs, by label, or by a
\* numeric key among EntryIDs that is no label; anything else is dropped.
C33_SubmittedIDsFromSaveState ==
    /\ \A k \in 1..Len(inj.finalRows) :
          \A entry \in inj.finalRows[k].AnswersMap :
             /\ entry[1] \in SaveStateIDs
             /\ \E j \in 1..Len(inj.req.answers) : EntryFromItem(entry, inj.req.answers[j])
    /\ \A idx \in DOMAIN inj.payload :
          \A sent \in inj.payload[idx].responses :
             /\ sent[1] \in SaveStateIDs
             /\ \E entry \in inj.finalRows[idx + 1].AnswersMap :
                   sent = <<entry[1], finalValOf(entry[2])>>

\* the object with a label, a key that is a label and reads as the ID of
\* another question, a number out of EntryIDs and an unknown label has been
\* submitted: the one entry of the submission is that of the first question
C33_Witness ==
    /\ inj.req.saves = SampleSaves
    /\ inj.req.answers = <<ObjectItem({<<"2", "b">>})>>
    /\ inj.result.written
    /\ inj.payload[0].built
    /\ inj.payload[0].responses = {<<1, <<"b">> >>}

\* an entry of the question list that the walk takes for a question: an
\* array of five elements or more that is no page break and whose element 4
\* is a non-empty array starting with a non-empty array starting with a
\* number
IsQuestion(e) ==
    /\ e.t = "arr"
    /\ Len(e.a) >= 5
    /\ ~IsType8(e)
    /\ HasDetails(e)
    /\ e.a[5].a[1].t = "arr"
    /\ Len(e.a[5].a[1].a) > 0
    /\ e.a[5].a[1].a[1].t = "num"

\* C34: in every schema scrapeGoogleForm returns, Saves.EntryIDs has the
\* length of Questions and holds at every position the ID of the question
\* at that position, the questions being those of the question list in its
\* order; and every value of Saves.EntryMappings is an element of
\* Saves.EntryIDs.
C34_EntryIDsAlignedWithQuestions ==
    SchemaReturned =>
        LET qs == scr.ret.data.Questions
            saves == scr.ret.data.Saves
            taken == SelectSeq(QuestionList, IsQuestion)
        IN  /\ Len(saves.EntryIDs) = Len(qs)
            /\ \A i \in 1..Len(qs) : saves.EntryIDs[i] = qs[i].ID
            /\ Len(qs) = Len(taken)
            /\ \A i \in 1..Len(qs) : qs[i].ID = TruncInt(taken[i].a[5].a[1].a[1])
            /\ \A m \in saves.EntryMappings : m[2] \in Range(saves.EntryIDs)

\* two questions with one ID, the first of them labelled
C34_Witness ==
    /\ SchemaReturned
    /\ Len(scr.ret.data.Questions) = 2
    /\ scr.ret.data.Questions[1].ID = scr.ret.data.Questions[2].ID
    /\ scr.ret.data.Saves.EntryIDs = <<101, 101>>
    /\ scr.ret.data.Saves.EntryMappings = {<<"A", 101>>}

\* the scrape has run on a page from which a JSON array was extracted
ArrayExtracted ==
    /\ Scraped
    /\ Len(findFormData(scr.page.content)) >= 2
    /\ unmarshalArray(findFormData(scr.page.content)[2], scr.page.data).ok

\* C35: on every JSON array extracted from the page scrapeGoogleForm
\* returns: the error and no schema when the array has fewer than two
\* elements, when its element 1 is no array of two elements or more, or when
\* the question list is no array; and otherwise no error and a schema whose
\* questions are the well-formed entries of the question list, every other
\* entry left out.
C35_MalformedShapesAreErrorsOrSkipped ==
    ArrayExtracted =>
        LET top == scr.page.data.a
        IN  IF Len(top) < 2
            THEN scr.ret = ScrapeError("struktur JSON invalid")
            ELSE IF top[2].t # "arr" \/ Len(top[2].a) < 2
            THEN scr.ret = ScrapeError("gagal akses level 1")
            ELSE IF top[2].a[2].t # "arr"
            THEN scr.ret = ScrapeError("gagal akses list pertanyaan")
            ELSE /\ scr.ret.err = "nil"
                 /\ ~scr.ret.data.nil
                 /\ Len(scr.ret.data.Questions) = Len(SelectSeq(QuestionList, IsQuestion))
                 /\ Len(scr.ret.data.Saves.EntryIDs) = Len(scr.ret.data.Questions)

\* a question list of a bare string and an entry without a numeric
\* identifier: the schema is returned without questions
C35_Witness ==
    /\ ArrayExtracted
    /\ scr.ret.err = "nil"
    /\ Len(QuestionList) = 2
    /\ QuestionList[1].t = "str"
    /\ QuestionList[2].t = "arr" /\ Len(QuestionList[2].a) = 5
    /\ scr.ret.data.Questions = <<>>

\* the fields of the filter that get a goroutine, and whether two of them
\* are one field after the trimming of line 133
FilterFieldsLaunched ==
    {e[1] : e \in {x \in pf.filter : TrimSpace(x[1]) # <<>> /\ x[2].t # "null"}}

FieldsCollide ==
    \E k1, k2 \in FilterFieldsLaunched : k1 # k2 /\ TrimSpace(k1) = TrimSpace(k2)

\* C36 as stated: a second call of buildPostgrestQuery on the same filter
\* returns the query string of the first, whatever the order in which the
\* goroutines of the two calls ran.
C36_Original_SameQueryOnEveryRun ==
    (pf.ret.returned /\ pf.prev.returned) => pf.ret.qs = pf.prev.qs

\* the same for the filters no two keys of which are one field after
\* trimming
C36_DistinctFieldsSameQuery ==
    (pf.ret.returned /\ pf.prev.returned /\ ~FieldsCollide) => pf.ret.qs = pf.prev.qs

\* two calls on a filter of two distinct fields have returned
C36_DistinctFieldsReached ==
    /\ pf.ret.returned
    /\ pf.prev.returned
    /\ ~FieldsCollide
    /\ Cardinality(FilterFieldsLaunched) = 2
    /\ pf.ret.qs # <<"select", "=", "*">>

\* the columns that the fields of the filter with a known name and a value
\* of the type of their column write to
ContributingCols ==
    {fieldWrite(TrimSpace(k), FilterValue(k)).col :
        k \in {x \in FilterFieldsLaunched :
                  /\ fieldWrite(TrimSpace(x), FilterValue(x)).kind # "none"
                  /\ fieldWrite(TrimSpace(x), FilterValue(x)).kind = "in" =>
                         fieldWrite(TrimSpace(x), FilterValue(x)).vals # <<>>}}

\* the columns the accumulators hold something for
AccumulatedCols ==
    {e[1] : e \in pf.numBounds} \cup {e[1] : e \in pf.boolEq}
    \cup {e[1] : e \in {x \in pf.stringIn : x[2] # <<>>}}
    \cup ({e[1] : e \in pf.q} \ {"select"})

\* nothing is ever sent on errCh and the call returns the nil error; a
\* goroutine is in its section under mu exactly when it holds mu; and what
\* has been accumulated when the call returns is for the columns of the
\* fields with a known name and a convertible value, and for no other
FilterNeverFails ==
    /\ pf.errCh = <<>>
    /\ pf.ret.returned => pf.ret.err = "nil"
    /\ \A key \in DOMAIN pf.go : pf.go[key] = "crit" <=> pf.mu = key
    /\ pf.pc = "build" => AccumulatedCols \subseteq ContributingCols
    /\ pf.pc = "returned" => AccumulatedCols = ContributingCols
    /\ (pf.ret.returned /\ ContributingCols = {} /\ pf.req.fb.Limit = <<>>) =>
           pf.ret.qs = <<"select", "=", "*">>

\* a step of the goroutines that changes an accumulator is the step of the
\* goroutine that holds mu and releases it with the step
FilterWriteUnderMutex ==
    (/\ pf.pc = "build"
     /\ pf'.pc = "build"
     /\ <<pf'.numBounds, pf'.stringIn, pf'.boolEq, pf'.q>>
            # <<pf.numBounds, pf.stringIn, pf.boolEq, pf.q>>)
    => \E key \in DOMAIN pf.go :
          /\ pf.mu = key
          /\ pf.go[key] = "crit"
          /\ pf'.go[key] = "done"
          /\ pf'.mu = NoField

\* C37: buildPostgrestQuery returns the nil error for every filter; a field
\* with an unknown name, a nil value or a value that does not convert to
\* the type of its column adds no parameter to the query; and the
\* goroutines write numBounds, stringIn, boolEq and q only while holding mu.
C37_NilErrorAndWritesUnderMutex ==
    []FilterNeverFails /\ [][FilterWriteUnderMutex]_vars

\* a filter of an unknown field and a bound that is no number has been
\* built: no error, and the query selects without a condition
C37_Witness ==
    /\ pf.ret.returned
    /\ pf.ret.err = "nil"
    /\ pf.filter = {<<<<"foo">>, FStr(<<"a">>)>>, <<<<"usia", "_max">>, FStr(<<"x">>)>>}
    /\ \A key \in DOMAIN pf.go : pf.go[key] = "done"
    /\ pf.ret.qs = <<"select", "=", "*">>

\* the header starts with "Bearer " and what follows, trimmed, is the
\* secret, which is not empty
AcceptCondition(auth, secret) ==
    /\ secret # <<>>
    /\ Len(auth) >= 2
    /\ auth[1] = "Bearer"
    /\ auth[2] = SP
    /\ TrimSpace(SubSeq(auth, 3, Len(auth))) = secret

\* the handler that has the request: its Authorization header, its method,
\* whether it has responded and with what status
AuthCases ==
    {[auth |-> r.auth, method |-> r.method, responded |-> hpc = "responded",
      status |-> status, active |-> hpc # "parked"],
     [auth |-> inj.req.auth, method |-> inj.req.method, responded |-> inj.pc = "responded",
      status |-> inj.status, active |-> inj.pc # "parked"],
     [auth |-> pf.req.auth, method |-> pf.req.method, responded |-> pf.pc = "responded",
      status |-> pf.status, active |-> pf.pc # "parked"]}

\* C38: mustAuthorize returns nil exactly for a non-empty secret and a
\* header that starts with "Bearer " and whose rest, trimmed, is the secret;
\* so with the secret unset every request is rejected; and the factory, the
\* injector and the filter handler answer a request that is not accepted
\* with 401 whatever its method, and an accepted one that is not a POST
\* with 405.
C38_AuthorizationBeforeMethod ==
    \A c \in {x \in AuthCases : x.active} :
        /\ (mustAuthorize(c.auth, env.secret) = "nil") <=> AcceptCondition(c.auth, env.secret)
        /\ env.secret = <<>> => mustAuthorize(c.auth, env.secret) # "nil"
        /\ c.responded =>
              /\ ~AcceptCondition(c.auth, env.secret) => c.status = 401
              /\ (AcceptCondition(c.auth, env.secret) /\ c.method # "POST") => c.status = 405
              /\ (AcceptCondition(c.auth, env.secret) /\ c.method = "POST") =>
                     c.status \notin {401, 405}

\* the injector has answered a GET without the header with 401
C38_Witness ==
    /\ inj.pc = "responded"
    /\ inj.req.method = "GET"
    /\ inj.req.auth = <<>>
    /\ env.secret = Secret
    /\ inj.status = 401

\* the factory has answered a GET of another key with 401, and the filter
\* handler a GET with the secret unset
C38_FactoryReached ==
    /\ hpc = "responded"
    /\ r.method = "GET"
    /\ r.auth = BearerPrefix \o <<"other">>
    /\ status = 401

C38_FilterReached ==
    /\ pf.pc = "responded"
    /\ pf.req.method = "GET"
    /\ pf.req.auth = BearerPrefix \o Secret
    /\ env.secret = <<>>
    /\ pf.status = 401

\* a header with blanks around the secret is accepted
C38_TrimmedAccepted ==
    /\ pf.pc = "build"
    /\ pf.req.auth = BearerPrefix \o <<SP>> \o Secret \o <<SP>>

====
